---------------------------- MODULE Spec2Model ----------------------------
(***************************************************************************)
(* A model of smtp_to_telegram (src/smtp_to_telegram.go): the TelegramBot  *)
(* processor, SendEmailToTelegram, the two Telegram API calls, FormatEmail *)
(* and FormatMessage.                                                      *)
(*                                                                         *)
(* Strings are sequences of runes; a rune is written as a TLA+ string      *)
(* ("a", "\n", or a code point name such as "U+00E9" for a rune whose      *)
(* UTF-8 encoding has more than one byte).  Len counts runes, ByteLen      *)
(* counts bytes, as len([]rune(s)) and len(s) do in the source.            *)
(***************************************************************************)
EXTENDS Integers, Sequences, FiniteSets, TLC

----------------------------------------------------------------------------
(* Runes and strings *)

\* Runes of the model that take more than one byte in UTF-8.
Rune2 == "U+00E9"      \* e with acute accent, 2 bytes
Rune3 == "U+2754"      \* white question mark ornament, 3 bytes
Rune4Link == "U+1F517" \* link symbol, 4 bytes
Rune4Clip == "U+1F4CE" \* paperclip, 4 bytes
RuneNul == "U+0000"    \* the zero rune, 1 byte

\* len(s) of a Go string: the number of bytes of its UTF-8 encoding.
ByteLen(s) ==
    Len(s)
    + Cardinality({i \in 1..Len(s) : s[i] = Rune2})
    + 2 * Cardinality({i \in 1..Len(s) : s[i] = Rune3})
    + 3 * Cardinality({i \in 1..Len(s) : s[i] \in {Rune4Link, Rune4Clip}})

\* n copies of the rune c (strings.Repeat of a one-rune string).
Rep(c, n) == [i \in 1..n |-> c]

\* unicode.IsSpace on the runes of the model.
IsSpace(c) == c \in {" ", "\n", "\t", "\r"}

RECURSIVE FirstNonSpace(_, _)
FirstNonSpace(s, i) ==
    IF i > Len(s) \/ ~IsSpace(s[i]) THEN i ELSE FirstNonSpace(s, i + 1)

RECURSIVE LastNonSpace(_, _)
LastNonSpace(s, i) ==
    IF i < 1 \/ ~IsSpace(s[i]) THEN i ELSE LastNonSpace(s, i - 1)

\* strings.TrimSpace: s without its leading and trailing white space.
TrimSpace(s) ==
    LET lo == FirstNonSpace(s, 1)
        hi == LastNonSpace(s, Len(s))
    IN  IF lo > hi THEN <<>> ELSE SubSeq(s, lo, hi)

\* TRUE iff sub occurs in s at position i (1-based).
OccursAt(s, sub, i) ==
    /\ i + Len(sub) - 1 <= Len(s)
    /\ \A k \in 1..Len(sub) : s[i + k - 1] = sub[k]

\* strings.Contains.
Contains(s, sub) == \E i \in 1..(Len(s) + 1) : OccursAt(s, sub, i)

RECURSIVE SplitFrom(_, _, _, _)
SplitFrom(s, sep, i, start) ==
    IF i > Len(s) THEN <<SubSeq(s, start, Len(s))>>
    ELSE IF s[i] = sep
         THEN <<SubSeq(s, start, i - 1)>> \o SplitFrom(s, sep, i + 1, i + 1)
         ELSE SplitFrom(s, sep, i + 1, start)

\* strings.Split(s, sep) for a separator of one rune: always at least one
\* element, empty fields kept.
Split(s, sep) == SplitFrom(s, sep, 1, 1)

RECURSIVE Join(_, _)
\* strings.Join(a, sep).
Join(a, sep) ==
    IF a = <<>> THEN <<>>
    ELSE IF Len(a) = 1 THEN a[1]
    ELSE a[1] \o sep \o Join(Tail(a), sep)

RECURSIVE ReplaceAllFrom(_, _, _, _)
ReplaceAllFrom(s, old, new, i) ==
    IF i > Len(s) THEN <<>>
    ELSE IF OccursAt(s, old, i)
         THEN new \o ReplaceAllFrom(s, old, new, i + Len(old))
         ELSE <<s[i]>> \o ReplaceAllFrom(s, old, new, i + 1)

\* strings.Replace(s, old, new, -1) for a non-empty old: every
\* non-overlapping occurrence, left to right.
ReplaceAll(s, old, new) ==
    IF old = <<>> THEN s ELSE ReplaceAllFrom(s, old, new, 1)

RECURSIVE Digits(_)
\* The decimal digits of a natural number.
Digits(n) ==
    LET d == <<"0", "1", "2", "3", "4", "5", "6", "7", "8", "9">>
    IN  IF n < 10 THEN <<d[n + 1]>> ELSE Digits(n \div 10) \o <<d[(n % 10) + 1]>>

----------------------------------------------------------------------------
(* String constants of the source *)

\* const BodyTruncated = "\n\n[truncated]"
BodyTruncated ==
    <<"\n", "\n", "[", "t", "r", "u", "n", "c", "a", "t", "e", "d", "]">>

StrDiscarded == <<"d", "i", "s", "c", "a", "r", "d", "e", "d">>
StrSending == <<"s", "e", "n", "d", "i", "n", "g", ".", ".", ".">>
StrAttachmentsHeader ==
    <<"A", "t", "t", "a", "c", "h", "m", "e", "n", "t", "s", ":", "\n">>
StrFullMessageTxt ==
    <<"f", "u", "l", "l", "_", "m", "e", "s", "s", "a", "g", "e", ".", "t", "x", "t">>
StrFullMessage ==
    <<"F", "u", "l", "l", " ", "m", "e", "s", "s", "a", "g", "e">>

TypeJpeg == <<"i", "m", "a", "g", "e", "/", "j", "p", "e", "g">>
TypePng == <<"i", "m", "a", "g", "e", "/", "p", "n", "g">>
TypeGif == <<"i", "m", "a", "g", "e", "/", "g", "i", "f">>
TypeTextPlain == <<"t", "e", "x", "t", "/", "p", "l", "a", "i", "n">>
TypeOctetStream ==
    <<"a", "p", "p", "l", "i", "c", "a", "t", "i", "o", "n", "/",
      "o", "c", "t", "e", "t", "-", "s", "t", "r", "e", "a", "m">>

ATTACHMENT_TYPE_DOCUMENT == 0
ATTACHMENT_TYPE_PHOTO == 1

\* "Telegram API has a limit of 4096 chars per message."
TelegramMessageLimit == 4096

\* The default of the flag message-length-to-send-as-file.
DefaultMessageLengthToSendAsFile == 4095

\* The default of forwarded-attachment-max-size, "10m" (decimal units).
DefaultForwardedAttachmentMaxSize == 10000000

----------------------------------------------------------------------------
(* Message templates *)

(***************************************************************************)
(* strings.NewReplacer(...).Replace scans the template once, left to       *)
(* right, and replaces each occurrence of one of its six keys; no key is a *)
(* prefix of another, so the scan splits the template in exactly one way   *)
(* into keys and other runes.  A template is modelled as that sequence of  *)
(* tokens: a token is a key or a single literal rune.                      *)
(***************************************************************************)
TokNewline == "\\n"
TokFrom == "{from}"
TokTo == "{to}"
TokSubject == "{subject}"
TokBody == "{body}"
TokDetails == "{attachments_details}"

\* The replacement of one token.
ReplaceToken(tok, from, to, subject, body, details) ==
    CASE tok = TokNewline -> <<"\n">>
      [] tok = TokFrom -> from
      [] tok = TokTo -> to
      [] tok = TokSubject -> subject
      [] tok = TokBody -> body
      [] tok = TokDetails -> details
      [] OTHER -> <<tok>>

RECURSIVE Replace(_, _, _, _, _, _)
\* strings.NewReplacer("\\n", "\n", "{from}", from, ..., ).Replace(template)
Replace(template, from, to, subject, body, details) ==
    IF template = <<>> THEN <<>>
    ELSE ReplaceToken(Head(template), from, to, subject, body, details)
         \o Replace(Tail(template), from, to, subject, body, details)

----------------------------------------------------------------------------
(* FormatMessage *)

\* The conversion []rune(s) of line 592 does not escape, so the runtime may
\* build the slice in a stack buffer of 32 runes (tmpStringBufSize) when the
\* string has at most 32 runes; otherwise the slice is allocated.  The slice
\* expression [:maxBodyLength] is bounded by the capacity, not the length.
TmpStringBufSize == 32

\* The buffer the build hands to the conversion: none, or the stack buffer.
RuneBufs == {0, TmpStringBufSize}

\* cap([]rune(s)) for a string of n runes converted with a buffer of buf
\* runes: the buffer when the runes fit in it, else an allocation of n runes
\* (4 * n bytes; for the bodies of more than 32 runes that the model slices
\* past their length, 36 runes, the allocator adds no spare capacity).
RuneSliceCap(n, buf) == IF n <= buf THEN buf ELSE n

\* "{body}" of the empty-body variant: strings.TrimSpace(".\n\n[truncated]")
EmptyBody == TrimSpace(<<".">> \o BodyTruncated)

\* []rune(body)[:maxBodyLength] when maxBodyLength is within the capacity:
\* the runes past the length are those of the zeroed buffer.
SliceRunes(body, maxBodyLength) ==
    IF maxBodyLength <= Len(body)
    THEN SubSeq(body, 1, maxBodyLength)
    ELSE body \o Rep(RuneNul, maxBodyLength - Len(body))

\* The test of line 562 made strict.
NoNeedToTruncate_Strict(fullMessageText, threshold) ==
    Len(fullMessageText) < threshold

\* The test of line 562: the full text is sent as it is.
NoNeedToTruncate(fullMessageText, threshold) ==
    Len(fullMessageText) <= threshold

\* FormatMessage returns (fullMessageText, truncatedMessageText), the
\* second one empty when nothing was truncated, or panics.
FormatMessage(from, to, subject, text, formattedAttachmentsDetails, telegramConfig, buf) ==
    LET template == telegramConfig.messageTemplate
        threshold == telegramConfig.messageLengthToSendAsFile
        body == TrimSpace(text)
        fullMessageText ==
            TrimSpace(Replace(template, from, to, subject, body,
                              formattedAttachmentsDetails))
        emptyMessageText ==
            TrimSpace(Replace(template, from, to, subject, EmptyBody,
                              formattedAttachmentsDetails))
        maxBodyLength == threshold - Len(emptyMessageText)
        truncatedMessageText ==
            TrimSpace(Replace(template, from, to, subject,
                              TrimSpace(SliceRunes(body, maxBodyLength)
                                        \o BodyTruncated),
                              formattedAttachmentsDetails))
    IN  IF NoNeedToTruncate(fullMessageText, threshold)
        THEN [panic |-> "none", full |-> fullMessageText, truncated |-> <<>>]
        ELSE IF Len(emptyMessageText) >= threshold
        THEN [panic |-> "none", full |-> fullMessageText,
              truncated |-> SubSeq(fullMessageText, 1, threshold)]
        ELSE IF maxBodyLength > RuneSliceCap(Len(body), buf)
        THEN [panic |-> "slice bounds out of range",
              full |-> fullMessageText, truncated |-> <<>>]
        ELSE IF Len(truncatedMessageText) > threshold
        THEN [panic |-> "Unexpected length of truncated message",
              full |-> fullMessageText, truncated |-> <<>>]
        ELSE [panic |-> "none", full |-> fullMessageText,
              truncated |-> truncatedMessageText]

----------------------------------------------------------------------------
(* FormatEmail *)

\* filepath.Ext: the suffix of the name that starts at its last dot.
RECURSIVE ExtFrom(_, _)
ExtFrom(filename, i) ==
    IF i < 1 \/ filename[i] = "/" THEN <<>>
    ELSE IF filename[i] = "." THEN SubSeq(filename, i, Len(filename))
    ELSE ExtFrom(filename, i - 1)

Ext(filename) == ExtFrom(filename, Len(filename))

\* mime.TypeByExtension on the extensions of the model (the built-in table).
TypeByExtension(ext) ==
    CASE ext = <<".", "j", "p", "g">> -> TypeJpeg
      [] ext = <<".", "j", "p", "e", "g">> -> TypeJpeg
      [] ext = <<".", "p", "n", "g">> -> TypePng
      [] ext = <<".", "g", "i", "f">> -> TypeGif
      [] OTHER -> <<>>

GuessContentType(contentType, filename) ==
    IF contentType # TypeOctetStream THEN contentType
    ELSE LET guessedType == TypeByExtension(Ext(filename))
         IN  IF guessedType # <<>> THEN guessedType ELSE contentType

\* image/gif taken for an image too.
FileIsImage_WithGif(contentType) == contentType \in {TypeJpeg, TypePng, TypeGif}

\* Only image/jpeg taken for an image.
FileIsImage_JpegOnly(contentType) == contentType = TypeJpeg

FileIsImage(contentType) == contentType \in {TypeJpeg, TypePng}

\* units.HumanSize for a size below 1000 bytes: the number and "B".
HumanSize(n) == Digits(n) \o <<"B">>

\* mail.Address.String(): user@host.
AddressString(a) ==
    IF a.User = <<>> /\ a.Host = <<>> THEN <<>>
    ELSE IF a.Host # <<>> THEN a.User \o <<"@">> \o a.Host
    ELSE a.User

RECURSIVE AddressStrings(_)
AddressStrings(a) ==
    IF a = <<>> THEN <<>> ELSE <<AddressString(Head(a))>> \o AddressStrings(Tail(a))

JoinEmailAddresses(a) == Join(AddressStrings(a), <<",", " ">>)

\* One pass of the loop body of doParts: acc is the closure's state
\* (text, attachmentsDetails, attachments).
DoPart(acc, emoji, part, envText, telegramConfig) ==
    IF part.Content = envText THEN acc
    ELSE IF acc.text = <<>> /\ part.ContentType = TypeTextPlain
            /\ part.FileName = <<>>
    THEN [acc EXCEPT !.text = part.Content]
    ELSE
    LET contentType == GuessContentType(part.ContentType, part.FileName)
        size == ByteLen(part.Content)
        asPhoto == /\ FileIsImage(contentType)
                   /\ size <= telegramConfig.forwardedAttachmentMaxPhotoSize
        asDocument == /\ ~asPhoto
                      /\ size <= telegramConfig.forwardedAttachmentMaxSize
        action == IF asPhoto \/ asDocument THEN StrSending ELSE StrDiscarded
        line == <<"-", " ", emoji, " ">> \o part.FileName \o <<" ", "(">>
                \o contentType \o <<")", " ">> \o HumanSize(size)
                \o <<",", " ">> \o action
        at == [filename |-> part.FileName, caption |-> part.FileName,
               content |-> part.Content,
               fileType |-> IF asPhoto THEN ATTACHMENT_TYPE_PHOTO
                            ELSE ATTACHMENT_TYPE_DOCUMENT]
    IN  [text |-> acc.text,
         attachmentsDetails |-> Append(acc.attachmentsDetails, line),
         attachments |-> IF asPhoto \/ asDocument
                         THEN Append(acc.attachments, at)
                         ELSE acc.attachments]

RECURSIVE DoParts(_, _, _, _, _)
DoParts(acc, emoji, parts, envText, telegramConfig) ==
    IF parts = <<>> THEN acc
    ELSE DoParts(DoPart(acc, emoji, Head(parts), envText, telegramConfig),
                 emoji, Tail(parts), envText, telegramConfig)

\* The summary line of a part of env.OtherParts.
OtherPartLine(part) ==
    <<"-", " ", Rune3, " ">> \o part.FileName \o <<" ", "(">>
    \o GuessContentType(part.ContentType, part.FileName) \o <<")", " ">>
    \o HumanSize(ByteLen(part.Content)) \o <<",", " ">> \o StrDiscarded

RECURSIVE OtherPartLines(_)
OtherPartLines(parts) ==
    IF parts = <<>> THEN <<>>
    ELSE <<OtherPartLine(Head(parts))>> \o OtherPartLines(Tail(parts))

\* The attachment parts gone through before the inline parts.
CollectParts_AttachmentsFirst(e, telegramConfig) ==
    LET start == [text |-> e.Text, attachmentsDetails |-> <<>>,
                  attachments |-> <<>>]
        att == DoParts(start, Rune4Clip, e.Attachments, e.Text, telegramConfig)
        inl == DoParts(att, Rune4Link, e.Inlines, e.Text, telegramConfig)
    IN  [inl EXCEPT !.attachmentsDetails = @ \o OtherPartLines(e.OtherParts)]

\* The closure's state after doParts(inlines), doParts(attachments) and the
\* loop over the other parts.
CollectParts(e, telegramConfig) ==
    LET start == [text |-> e.Text, attachmentsDetails |-> <<>>,
                  attachments |-> <<>>]
        inl == DoParts(start, Rune4Link, e.Inlines, e.Text, telegramConfig)
        att == DoParts(inl, Rune4Clip, e.Attachments, e.Text, telegramConfig)
    IN  [att EXCEPT !.attachmentsDetails = @ \o OtherPartLines(e.OtherParts)]

\* The header also when there is no summary line.
FormatAttachmentsDetails_AlwaysHeader(attachmentsDetails) ==
    StrAttachmentsHeader \o Join(attachmentsDetails, <<"\n">>)

FormatAttachmentsDetails(attachmentsDetails) ==
    IF Len(attachmentsDetails) > 0
    THEN StrAttachmentsHeader \o Join(attachmentsDetails, <<"\n">>)
    ELSE <<>>

\* mail.Envelope.String(): the delivery header and the raw data.
EnvelopeString(e) == e.Data

\* The call of FormatMessage made by FormatEmail.
FormatMessageOf(e, telegramConfig, buf) ==
    LET parts == CollectParts(e, telegramConfig)
        text == IF parts.text = <<>> THEN e.Data ELSE parts.text
    IN  FormatMessage(AddressString(e.MailFrom), JoinEmailAddresses(e.RcptTo),
                      e.Subject, text,
                      FormatAttachmentsDetails(parts.attachmentsDetails),
                      telegramConfig, buf)

\* The fallback document with the full message.
FullMessageAttachment(fullMessageText) ==
    [filename |-> StrFullMessageTxt, caption |-> StrFullMessage,
     content |-> fullMessageText, fileType |-> ATTACHMENT_TYPE_DOCUMENT]

\* The fallback document put after the other attachments.
PrependFullMessage_Appended(at, attachments) == attachments \o <<at>>

\* append([]*FormattedAttachment{at}, attachments...) of line 538.
PrependFullMessage(at, attachments) == <<at>> \o attachments

\* FormatEmail's outcome: a FormattedEmail (status "ok"), an error, or a
\* panic.  An error text is a sequence of runes and of literal pieces of
\* format strings.
FormatEmail(e, telegramConfig, buf) ==
    IF e.ParseError
    THEN [status |-> "error", text |-> <<>>, attachments |-> <<>>,
          err |-> EnvelopeString(e)
                  \o <<"\n", "\n", "Error occurred during email parsing: ",
                       "parse error">>]
    ELSE
    LET parts == CollectParts(e, telegramConfig)
        m == FormatMessageOf(e, telegramConfig, buf)
    IN  IF m.panic # "none"
        THEN [status |-> "panic", text |-> <<>>, attachments |-> <<>>,
              err |-> <<m.panic>>]
        ELSE IF m.truncated = <<>>
        THEN [status |-> "ok", text |-> m.full,
              attachments |-> parts.attachments, err |-> <<>>]
        ELSE IF ByteLen(m.full) > telegramConfig.forwardedAttachmentMaxSize
        THEN [status |-> "error", text |-> <<>>, attachments |-> <<>>,
              err |-> <<"The message length (">> \o Digits(ByteLen(m.full))
                      \o <<") is larger than forwarded-attachment-max-size (">>
                      \o Digits(telegramConfig.forwardedAttachmentMaxSize)
                      \o <<")">>]
        ELSE [status |-> "ok", text |-> m.truncated,
              attachments |-> PrependFullMessage(
                                  FullMessageAttachment(m.full),
                                  parts.attachments),
              err |-> <<>>]

----------------------------------------------------------------------------
(* State *)

VARIABLES
    config,       \* the TelegramConfig, shared and never written
    active,       \* the save workers that have an envelope to process
    task,         \* per worker: the backends.SelectTask of the call
    envelope,     \* per worker: the envelope (with what enmime reads from it)
    pc,           \* per worker: where the processor is
    message,      \* per worker: what FormatEmail returned
    chatIdx,      \* per worker: index of the chat id of the loop of line 290
    attIdx,       \* per worker: index of the attachment of the loop of line 306
    sentMessage,  \* per worker: what SendMessageToChat returned
    requests,     \* the requests made to the Telegram API, in order
    logged,       \* the lines written to the logger by the dispatch
    result,       \* per worker: what the processor returned
    nextCalled    \* per worker: number of calls of the next processor

vars == <<config, active, task, envelope, pc, message, chatIdx, attIdx,
          sentMessage, requests, logged, result, nextCalled>>

\* The save workers of the backend ("save_workers_size": 3 in the source;
\* the model runs two of them).
Workers == {1, 2}

NoMessage ==
    [status |-> "none", text |-> <<>>, attachments |-> <<>>, err |-> <<>>]
NoSentMessage == [isNil |-> TRUE, MessageId |-> <<>>]
NoResult == [code |-> <<>>, err |-> <<>>, isErr |-> FALSE]

----------------------------------------------------------------------------
(* Inputs of the formatter *)

MaxBodyLen == 18
MaxThreshold == 18

Str_b_x == [User |-> <<"b">>, Host |-> <<"x">>]
Str_a_x == [User |-> <<"a">>, Host |-> <<"x">>]
Str_t_x == [User |-> <<"t">>, Host |-> <<"x">>]
Str_ba_x == [User |-> <<"b", "a">>, Host |-> <<"x">>]

\* "From: {from}\\nTo: {to}\\nSubject: {subject}\\n\\n{body}\\n\\n{attachments_details}"
DefaultTemplate ==
    <<"F", "r", "o", "m", ":", " ", TokFrom, TokNewline,
      "T", "o", ":", " ", TokTo, TokNewline,
      "S", "u", "b", "j", "e", "c", "t", ":", " ", TokSubject, TokNewline,
      TokNewline, TokBody, TokNewline, TokNewline, TokDetails>>

\* The templates of the model: the default one, the body alone, the body
\* between other fields, the body inside white space, no body at all, the
\* body twice, the body before the subject.
Templates ==
    { DefaultTemplate,
      <<TokBody>>,
      <<TokSubject, TokNewline, TokBody, TokNewline, TokDetails>>,
      <<" ", TokBody, TokNewline>>,
      <<TokSubject, TokDetails>>,
      <<TokBody, TokBody>>,
      <<TokBody, TokNewline, TokSubject>> }

\* Thresholds above the empty-body variant of a template that has {body}
\* twice and nothing else (2 * 14 runes).
ThresholdsOverTwoMarkers ==
    {2 * Len(EmptyBody) + 3, 2 * TmpStringBufSize - 5, 2 * TmpStringBufSize + 6}

\* Thresholds (message-length-to-send-as-file): the small ones, the default,
\* the values around the platform's limit, and ThresholdsOverTwoMarkers.
Thresholds ==
    (0..MaxThreshold)
    \cup {DefaultMessageLengthToSendAsFile, TelegramMessageLimit,
          TelegramMessageLimit + 1}
    \cup ThresholdsOverTwoMarkers

\* Plain-text bodies: ASCII, two-byte runes, and a body inside white space;
\* short ones, ones around the platform's limit, and ones around the
\* length the runtime's conversion buffer holds.
Bodies ==
    {Rep("a", n) : n \in 0..MaxBodyLen}
    \cup {Rep(Rune2, n) : n \in 1..MaxBodyLen}
    \cup {<<" ">> \o Rep("a", n) \o <<"\n">> : n \in 0..MaxBodyLen}
    \cup {Rep(c, n) : c \in {"a", Rune2},
                      n \in {TelegramMessageLimit, TelegramMessageLimit + 1}}
    \cup {Rep("a", n) : n \in {TmpStringBufSize - 2, TmpStringBufSize + 4}}

PartJpgInline ==
    [FileName |-> <<"i", ".", "j", "p", "g">>, ContentType |-> TypeJpeg,
     Content |-> <<"J", "P", "G">>]
PartTxtAttachment ==
    [FileName |-> <<"h", ".", "t", "x", "t">>, ContentType |-> TypeTextPlain,
     Content |-> <<"h", "i">>]

\* What enmime.ReadEnvelope finds in an envelope of the model.
MakeEnvelope(from, subject, text, inlines, attachments, others, perr) ==
    [MailFrom |-> from, RcptTo |-> <<Str_t_x>>, Subject |-> subject,
     Text |-> text, Inlines |-> inlines, Attachments |-> attachments,
     OtherParts |-> others, Data |-> <<"r", "a", "w">>, ParseError |-> perr]

NoEnvelope == MakeEnvelope(Str_b_x, <<>>, <<>>, <<>>, <<>>, <<>>, FALSE)

Str_from_test ==
    [User |-> <<"f", "r", "o", "m">>, Host |-> <<"t", "e", "s", "t">>]
Str_to_test == [User |-> <<"t", "o">>, Host |-> <<"t", "e", "s", "t">>]

\* The envelope of TestSuccess: from@test to to@test, the data "hi" with no
\* header, so no subject and no parts.
EnvelopeTestSuccess ==
    [MakeEnvelope(Str_from_test, <<>>, <<"h", "i">>, <<>>, <<>>, <<>>, FALSE)
        EXCEPT !.RcptTo = <<Str_to_test>>, !.Data = <<"h", "i">>]

FormatEnvelopes ==
    {MakeEnvelope(Str_b_x, <<"s">>, text, parts[1], parts[2], <<>>, FALSE) :
        text \in Bodies,
        parts \in {<<<<>>, <<>>>>, <<<<PartJpgInline>>, <<PartTxtAttachment>>>>}}
    \cup {EnvelopeTestSuccess}

\* The bot token of the configurations of the model.
BotToken == <<"4", "2", ":", "Z">>

MakeConfig(chatIds, template, maxSize, maxPhotoSize, respect, threshold) ==
    [telegramChatIds |-> chatIds,
     telegramBotToken |-> BotToken,
     messageTemplate |-> template,
     forwardedAttachmentMaxSize |-> maxSize,
     forwardedAttachmentMaxPhotoSize |-> maxPhotoSize,
     forwardedAttachmentRespectErrors |-> respect,
     messageLengthToSendAsFile |-> threshold]

FormatConfigs ==
    {MakeConfig(<<"4", "2">>, template, maxSize, maxPhotoSize, FALSE, threshold) :
        template \in Templates,
        maxSize \in {0, 20, DefaultForwardedAttachmentMaxSize},
        maxPhotoSize \in {3},
        threshold \in Thresholds}

----------------------------------------------------------------------------
(* The formatter on its own: FormatEmail called on one envelope *)

InitFormat ==
    /\ config \in FormatConfigs
    /\ active = {1}
    /\ task = [w \in Workers |-> "TaskSaveMail"]
    /\ \E e \in FormatEnvelopes :
          envelope = [w \in Workers |-> IF w = 1 THEN e ELSE NoEnvelope]
    /\ pc = [w \in Workers |-> IF w = 1 THEN "start" ELSE "off"]
    /\ message = [w \in Workers |-> NoMessage]
    /\ chatIdx = [w \in Workers |-> 0]
    /\ attIdx = [w \in Workers |-> 0]
    /\ sentMessage = [w \in Workers |-> NoSentMessage]
    /\ requests = <<>>
    /\ logged = <<>>
    /\ result = [w \in Workers |-> NoResult]
    /\ nextCalled = [w \in Workers |-> 0]

CallFormatEmail(w) ==
    /\ pc[w] = "start"
    /\ \E buf \in RuneBufs :
          message' = [message EXCEPT
                         ![w] = FormatEmail(envelope[w], config, buf)]
    /\ pc' = [pc EXCEPT ![w] = "formatted"]
    /\ UNCHANGED <<config, active, task, envelope, chatIdx, attIdx,
                   sentMessage, requests, logged, result, nextCalled>>

NextFormat == \E w \in active : CallFormatEmail(w)

SpecFormat == InitFormat /\ [][NextFormat]_vars

----------------------------------------------------------------------------
(* The formatter on envelopes with parts, under every pair of ceilings *)

MaxParts == 2

\* The sequences over S of at most n elements.
SeqsUpTo(S, n) == UNION {[1..k -> S] : k \in 0..n}

\* A png of no bytes, a gif, and a jpg declared as application/octet-stream.
PartPngEmpty ==
    [FileName |-> <<"e", ".", "p", "n", "g">>, ContentType |-> TypePng,
     Content |-> <<>>]
PartGif ==
    [FileName |-> <<"g", ".", "g", "i", "f">>, ContentType |-> TypeGif,
     Content |-> <<"G", "I">>]
PartOctetJpg ==
    [FileName |-> <<"o", ".", "j", "p", "g">>, ContentType |-> TypeOctetStream,
     Content |-> <<"J", "P", "E", "G">>]

Parts == {PartJpgInline, PartTxtAttachment, PartPngEmpty, PartOctetJpg}

PartsEnvelopes ==
    {MakeEnvelope(Str_b_x, <<"s">>, text, inlines, attachments, others, FALSE) :
        text \in {<<"y", "o">>, <<>>},
        inlines \in SeqsUpTo(Parts, MaxParts),
        attachments \in SeqsUpTo({PartJpgInline, PartPngEmpty, PartGif}, 1),
        others \in {<<>>, <<PartGif>>}}

\* Ceilings around the sizes of the parts (0, 2, 3 and 4 bytes).
Ceilings == {0, 2, 3, 4}

PartsConfigs ==
    {MakeConfig(<<"4", "2">>, DefaultTemplate, maxSize, maxPhotoSize, FALSE,
                DefaultMessageLengthToSendAsFile) :
        maxSize \in Ceilings, maxPhotoSize \in Ceilings}

InitParts ==
    /\ config \in PartsConfigs
    /\ active = {1}
    /\ task = [w \in Workers |-> "TaskSaveMail"]
    /\ \E e \in PartsEnvelopes :
          envelope = [w \in Workers |-> IF w = 1 THEN e ELSE NoEnvelope]
    /\ pc = [w \in Workers |-> IF w = 1 THEN "start" ELSE "off"]
    /\ message = [w \in Workers |-> NoMessage]
    /\ chatIdx = [w \in Workers |-> 0]
    /\ attIdx = [w \in Workers |-> 0]
    /\ sentMessage = [w \in Workers |-> NoSentMessage]
    /\ requests = <<>>
    /\ logged = <<>>
    /\ result = [w \in Workers |-> NoResult]
    /\ nextCalled = [w \in Workers |-> 0]

SpecParts == InitParts /\ [][NextFormat]_vars

----------------------------------------------------------------------------
(* The formatter on envelopes with and without a plain-text body *)

\* Parts of type text/plain without a file name (what mailx makes of the
\* text of a message with attachments): two with content, one of no bytes.
PartUntitledText ==
    [FileName |-> <<>>, ContentType |-> TypeTextPlain, Content |-> <<"b", "1">>]
PartUntitledText2 ==
    [FileName |-> <<>>, ContentType |-> TypeTextPlain, Content |-> <<"b", "2">>]
PartUntitledEmpty ==
    [FileName |-> <<>>, ContentType |-> TypeTextPlain, Content |-> <<>>]

\* A part without a file name that is no text, and a text file with the
\* content of the plain-text body.
PartUntitledBinary ==
    [FileName |-> <<>>, ContentType |-> TypeOctetStream,
     Content |-> <<"b", "i", "n">>]
PartCopyOfBody ==
    [FileName |-> <<"c", ".", "t", "x", "t">>, ContentType |-> TypeTextPlain,
     Content |-> <<"y", "o">>]

BodyParts ==
    {PartUntitledText, PartUntitledText2, PartUntitledEmpty,
     PartUntitledBinary, PartCopyOfBody, PartTxtAttachment}

BodyEnvelopes ==
    {MakeEnvelope(Str_b_x, <<"s">>, text, inlines, attachments, <<>>, FALSE) :
        text \in {<<"y", "o">>, <<>>},
        inlines \in SeqsUpTo(BodyParts, MaxParts),
        attachments \in SeqsUpTo(BodyParts, 1)}

\* "{body}\\n{attachments_details}", with a document ceiling of 0 or 2 bytes.
BodyConfigs ==
    {MakeConfig(<<"4", "2">>, <<TokBody, TokNewline, TokDetails>>, maxSize, 3,
                FALSE, DefaultMessageLengthToSendAsFile) :
        maxSize \in {0, 2}}

InitBody ==
    /\ config \in BodyConfigs
    /\ active = {1}
    /\ task = [w \in Workers |-> "TaskSaveMail"]
    /\ \E e \in BodyEnvelopes :
          envelope = [w \in Workers |-> IF w = 1 THEN e ELSE NoEnvelope]
    /\ pc = [w \in Workers |-> IF w = 1 THEN "start" ELSE "off"]
    /\ message = [w \in Workers |-> NoMessage]
    /\ chatIdx = [w \in Workers |-> 0]
    /\ attIdx = [w \in Workers |-> 0]
    /\ sentMessage = [w \in Workers |-> NoSentMessage]
    /\ requests = <<>>
    /\ logged = <<>>
    /\ result = [w \in Workers |-> NoResult]
    /\ nextCalled = [w \in Workers |-> 0]

SpecBody == InitBody /\ [][NextFormat]_vars

----------------------------------------------------------------------------
(* The Telegram API as the dispatch sees it *)

\* What a client.PostForm / client.Post call can come back with: an error
\* of the transport, or a response with a status code and a body.  Json is
\* what json.Unmarshal makes of the body (valid: it parses; Ok, HasResult,
\* MessageId: the fields of TelegramAPIMessageResult); ReadError: reading
\* the body fails.
HttpResponse(status, body, valid, ok, hasResult, messageId, readError) ==
    [kind |-> "response", StatusCode |-> status, Body |-> body,
     Valid |-> valid, Ok |-> ok, HasResult |-> hasResult,
     MessageId |-> messageId, ReadError |-> readError]

TransportError ==
    [kind |-> "error", StatusCode |-> 0, Body |-> <<>>, Valid |-> FALSE,
     Ok |-> FALSE, HasResult |-> FALSE, MessageId |-> <<>>,
     ReadError |-> FALSE]

\* The message identifiers the API hands out in the model.
MessageIds == {<<"1", "0", "1">>, <<"2", "0", "2">>}

StrError == <<"E", "r", "r", "o", "r">>

\* The responses to sendMessage: success with a message, success without a
\* result object, ok = false (a body of two lines), a body that is no JSON,
\* a body that cannot be read, a status other than 200 (a body of two
\* lines; a body that repeats the path of the request, the token with it),
\* no response at all.
SendMessageResponses ==
    {HttpResponse(200, <<"{ok:true,result:{message_id:">> \o id \o <<"}}">>,
                  TRUE, TRUE, TRUE, id, FALSE) : id \in MessageIds}
    \cup {HttpResponse(200, <<"{ok:true}">>, TRUE, TRUE, FALSE, <<>>, FALSE),
          HttpResponse(200, <<"{ok:false,", "\n", "description:x}">>,
                       TRUE, FALSE, FALSE, <<>>, FALSE),
          HttpResponse(200, StrError, FALSE, FALSE, FALSE, <<>>, FALSE),
          HttpResponse(200, <<>>, FALSE, FALSE, FALSE, <<>>, TRUE),
          HttpResponse(400, StrError \o <<"\r", "\n">> \o StrError,
                       FALSE, FALSE, FALSE, <<>>, FALSE),
          HttpResponse(404, <<"/", "b", "o", "t">> \o BotToken,
                       FALSE, FALSE, FALSE, <<>>, FALSE),
          TransportError}

\* The responses to sendDocument / sendPhoto.
SendAttachmentResponses ==
    {HttpResponse(200, <<"{}">>, TRUE, FALSE, FALSE, <<>>, FALSE),
     HttpResponse(400, StrError \o <<"\n">>, FALSE, FALSE, FALSE, <<>>, FALSE),
     TransportError}

\* The URL of an API method: prefix, "bot", the token, the method.
ApiUrl(telegramConfig, method) ==
    <<"http://api/", "bot">> \o telegramConfig.telegramBotToken
    \o <<"/", method>>

\* The text of the error of the transport (url.Error): it quotes the URL.
TransportErrorText(telegramConfig, method) ==
    <<"Post ", "\"">> \o ApiUrl(telegramConfig, method)
    \o <<"\"", ": ", "dial tcp: connection refused">>

EscapeMultiLine(b) ==
    ReplaceAll(ReplaceAll(b, <<"\r">>, <<"\\", "r">>), <<"\n">>, <<"\\", "n">>)

\* The text handed on as it is.
SanitizeBotToken_Identity(s, botToken) == s

SanitizeBotToken(s, botToken) == ReplaceAll(s, botToken, <<"*", "*", "*">>)

\* "Non-200 response from Telegram: (%d) %s"
Non200Text(resp) ==
    <<"Non-200 response from Telegram: (">> \o Digits(resp.StatusCode)
    \o <<")", " ">> \o EscapeMultiLine(resp.Body)

\* SendMessageToChat's return values for a response: (message, error);
\* isErr = FALSE is a nil error, sent.isNil = TRUE a nil message.
SendMessageToChatResult(resp, telegramConfig) ==
    IF resp.kind = "error"
    THEN [isErr |-> TRUE, sent |-> NoSentMessage,
          err |-> TransportErrorText(telegramConfig, "sendMessage")]
    ELSE IF resp.StatusCode # 200
    THEN [isErr |-> TRUE, sent |-> NoSentMessage, err |-> Non200Text(resp)]
    ELSE IF resp.ReadError
    THEN [isErr |-> TRUE, sent |-> NoSentMessage,
          err |-> <<"Error reading json body of sendMessage: ",
                    "unexpected EOF">>]
    ELSE IF ~resp.Valid
    THEN [isErr |-> TRUE, sent |-> NoSentMessage,
          err |-> <<"Error parsing json body of sendMessage: ",
                    "invalid character">>]
    ELSE IF resp.Ok # TRUE
    THEN [isErr |-> TRUE, sent |-> NoSentMessage,
          err |-> <<"ok != true: ">> \o resp.Body]
    ELSE [isErr |-> FALSE,
          sent |-> IF resp.HasResult
                   THEN [isNil |-> FALSE, MessageId |-> resp.MessageId]
                   ELSE NoSentMessage,
          err |-> <<>>]

\* The API method of an attachment.
AttachmentMethod(attachment) ==
    IF attachment.fileType = ATTACHMENT_TYPE_DOCUMENT THEN "sendDocument"
    ELSE "sendPhoto"

\* SendAttachmentToChat's return value for a response.
SendAttachmentToChatResult(resp, attachment, telegramConfig) ==
    IF resp.kind = "error"
    THEN [isErr |-> TRUE,
          err |-> TransportErrorText(telegramConfig,
                                     AttachmentMethod(attachment))]
    ELSE IF resp.StatusCode # 200
    THEN [isErr |-> TRUE, err |-> Non200Text(resp)]
    ELSE [isErr |-> FALSE, err |-> <<>>]

----------------------------------------------------------------------------
(* SendEmailToTelegram and the TelegramBot processor *)

\* The entries of telegramChatIds: strings.Split(telegramChatIds, ",").
ChatIds(telegramConfig) == Split(telegramConfig.telegramChatIds, ",")

\* fromMail and chatId of one entry (lines 291-295).
ParseChatId(entry) ==
    IF Contains(entry, <<":">>)
    THEN LET parsedChatId == Split(entry, ":")
         IN  [fromMail |-> parsedChatId[1], chatId |-> parsedChatId[2]]
    ELSE [fromMail |-> <<>>, chatId |-> entry]

\* No sender filter at all.
SenderMatches_Always(e, fromMail) == TRUE

\* The test of line 297: the destination is used iff this holds.
SenderMatches(e, fromMail) == Contains(AddressString(e.MailFrom), fromMail)

RECURSIVE NextMatching(_, _, _)
\* The first entry at or after i that the loop does not skip, or
\* Len(ids) + 1 when the loop ends.
NextMatching(e, ids, i) ==
    IF i > Len(ids) THEN i
    ELSE IF SenderMatches(e, ParseChatId(ids[i]).fromMail) THEN i
    ELSE NextMatching(e, ids, i + 1)

\* logger.Info(fromMail, e.MailFrom.String()) for the entries i..last.
InfoLines(e, ids, i, last) ==
    [k \in 1..(last - i + 1) |->
        [level |-> "info",
         text |-> ParseChatId(ids[i + k - 1]).fromMail
                  \o AddressString(e.MailFrom)]]

\* The sendMessage request: form fields chat_id and text.  (worker, dest
\* and att say which call of the dispatch made the request: the worker, the
\* index of the entry of telegramChatIds, the index of the attachment.)
TextRequest(w, dest, chatId, text) ==
    [worker |-> w, dest |-> dest, att |-> 0, method |-> "sendMessage",
     chat_id |-> chatId, text |-> text, filename |-> <<>>,
     caption |-> <<>>, content |-> <<>>, reply_to_message_id |-> <<>>,
     status |-> "pending", message_id |-> <<>>]

\* An attachment request that replies to the message of the latest text
\* send, of any dispatch, that had returned before the one it follows.
AttachmentRequest_SharedReceipt(w, dest, k, chatId, attachment, sent) ==
    LET oks == {i \in 1..Len(requests) :
                   /\ requests[i].method = "sendMessage"
                   /\ requests[i].status = "ok"}
        last == CHOOSE i \in oks : \A j \in oks : j <= i
    IN  [worker |-> w, dest |-> dest, att |-> k,
         method |-> AttachmentMethod(attachment),
         chat_id |-> chatId, text |-> <<>>, filename |-> attachment.filename,
         caption |-> attachment.caption, content |-> attachment.content,
         reply_to_message_id |-> IF oks = {} THEN sent.MessageId
                                 ELSE requests[last].message_id,
         status |-> "pending", message_id |-> <<>>]

\* An attachment request that is no reply.
AttachmentRequest_NoReply(w, dest, k, chatId, attachment, sent) ==
    [worker |-> w, dest |-> dest, att |-> k,
     method |-> AttachmentMethod(attachment),
     chat_id |-> chatId, text |-> <<>>, filename |-> attachment.filename,
     caption |-> attachment.caption, content |-> attachment.content,
     reply_to_message_id |-> <<>>,
     status |-> "pending", message_id |-> <<>>]

\* The sendDocument / sendPhoto request: chat_id, reply_to_message_id,
\* caption and the file.
AttachmentRequest(w, dest, k, chatId, attachment, sent) ==
    [worker |-> w, dest |-> dest, att |-> k,
     method |-> AttachmentMethod(attachment),
     chat_id |-> chatId, text |-> <<>>, filename |-> attachment.filename,
     caption |-> attachment.caption, content |-> attachment.content,
     reply_to_message_id |-> sent.MessageId,
     status |-> "pending", message_id |-> <<>>]

\* The request of worker w that has not returned yet.
PendingOf(reqs, w) ==
    CHOOSE i \in 1..Len(reqs) :
        reqs[i].worker = w /\ reqs[i].status = "pending"

\* The requests once the pending call of w has returned.
MarkDone(reqs, w, status, messageId) ==
    [reqs EXCEPT ![PendingOf(reqs, w)] =
        [@ EXCEPT !.status = status, !.message_id = messageId]]

\* backends.NewResult(fmt.Sprintf("554 Error: %s", err)), err
ErrorResult(err) ==
    [code |-> <<"554 Error: ">> \o err, err |-> err, isErr |-> TRUE]

\* What p.Process(e, task) returns: the result of the next processor.
NextProcessorResult ==
    [code |-> <<"result of the next processor">>, err |-> <<>>,
     isErr |-> FALSE]

\* A processor that calls the next one also after an error.
Finish_AlwaysNext(w, msg, isErr, err, reqs, logs) ==
    /\ message' = [message EXCEPT ![w] = msg]
    /\ requests' = reqs
    /\ logged' = logs
    /\ pc' = [pc EXCEPT ![w] = "done"]
    /\ result' = [result EXCEPT ![w] = NextProcessorResult]
    /\ nextCalled' = [nextCalled EXCEPT ![w] = @ + 1]
    /\ UNCHANGED <<chatIdx, attIdx, sentMessage>>

\* A processor that rejects the envelope when nothing was sent for it.
Finish_RejectUndelivered(w, msg, isErr, err, reqs, logs) ==
    LET undelivered == \A i \in 1..Len(reqs) : reqs[i].worker # w
        failed == isErr \/ undelivered
    IN  /\ message' = [message EXCEPT ![w] = msg]
        /\ requests' = reqs
        /\ logged' = logs
        /\ pc' = [pc EXCEPT ![w] = "done"]
        /\ result' = [result EXCEPT
                         ![w] = IF failed THEN ErrorResult(err)
                                ELSE NextProcessorResult]
        /\ nextCalled' = [nextCalled EXCEPT
                             ![w] = IF failed THEN @ ELSE @ + 1]
        /\ UNCHANGED <<chatIdx, attIdx, sentMessage>>

\* A processor that takes back the requests of a dispatch that fails.
Finish_UndoOnError(w, msg, isErr, err, reqs, logs) ==
    /\ message' = [message EXCEPT ![w] = msg]
    /\ requests' = IF isErr THEN SelectSeq(reqs, LAMBDA r : r.worker # w)
                   ELSE reqs
    /\ logged' = logs
    /\ pc' = [pc EXCEPT ![w] = "done"]
    /\ result' = [result EXCEPT
                     ![w] = IF isErr THEN ErrorResult(err)
                            ELSE NextProcessorResult]
    /\ nextCalled' = [nextCalled EXCEPT ![w] = IF isErr THEN @ ELSE @ + 1]
    /\ UNCHANGED <<chatIdx, attIdx, sentMessage>>

\* The processor returns: with SendEmailToTelegram's error, or with what
\* the next processor returns (lines 266-271).
Finish(w, msg, isErr, err, reqs, logs) ==
    /\ message' = [message EXCEPT ![w] = msg]
    /\ requests' = reqs
    /\ logged' = logs
    /\ pc' = [pc EXCEPT ![w] = "done"]
    /\ result' = [result EXCEPT
                     ![w] = IF isErr THEN ErrorResult(err)
                            ELSE NextProcessorResult]
    /\ nextCalled' = [nextCalled EXCEPT ![w] = IF isErr THEN @ ELSE @ + 1]
    /\ UNCHANGED <<chatIdx, attIdx, sentMessage>>

\* The goroutine panics: the processor returns nothing.
Panic(w, msg, sent, reqs, logs) ==
    /\ message' = [message EXCEPT ![w] = msg]
    /\ sentMessage' = [sentMessage EXCEPT ![w] = sent]
    /\ requests' = reqs
    /\ logged' = logs
    /\ pc' = [pc EXCEPT ![w] = "panic"]
    /\ UNCHANGED <<chatIdx, attIdx, result, nextCalled>>

\* The loop of line 290 from entry i on, up to its next blocking call:
\* skipped entries are logged and passed over; the first matching one gets
\* the sendMessage request; past the last entry the function returns nil.
LoopFrom(w, i, msg, reqs, logs) ==
    LET ids == ChatIds(config)
        j == NextMatching(envelope[w], ids, i)
        last == IF j > Len(ids) THEN Len(ids) ELSE j
        logs2 == logs \o InfoLines(envelope[w], ids, i, last)
    IN  IF j > Len(ids)
        THEN Finish(w, msg, FALSE, <<>>, reqs, logs2)
        ELSE /\ message' = [message EXCEPT ![w] = msg]
             /\ requests' = Append(reqs,
                    TextRequest(w, j, ParseChatId(ids[j]).chatId, msg.text))
             /\ logged' = logs2
             /\ chatIdx' = [chatIdx EXCEPT ![w] = j]
             /\ attIdx' = [attIdx EXCEPT ![w] = 0]
             /\ sentMessage' = [sentMessage EXCEPT ![w] = NoSentMessage]
             /\ pc' = [pc EXCEPT ![w] = "SendMessageToChat"]
             /\ UNCHANGED <<result, nextCalled>>

\* The loop of line 306 from attachment k on, up to its next blocking
\* call; after the last attachment the outer loop goes on.  Building the
\* request reads sentMessage.MessageId: a nil sentMessage panics.
AttachmentsFrom(w, k, sent, reqs, logs) ==
    LET attachments == message[w].attachments
        ids == ChatIds(config)
    IN  IF k > Len(attachments)
        THEN LoopFrom(w, chatIdx[w] + 1, message[w], reqs, logs)
        ELSE IF sent.isNil
        THEN Panic(w, message[w], sent, reqs, logs)
        ELSE /\ requests' = Append(reqs,
                    AttachmentRequest(w, chatIdx[w], k,
                                      ParseChatId(ids[chatIdx[w]]).chatId,
                                      attachments[k], sent))
             /\ logged' = logs
             /\ attIdx' = [attIdx EXCEPT ![w] = k]
             /\ sentMessage' = [sentMessage EXCEPT ![w] = sent]
             /\ pc' = [pc EXCEPT ![w] = "SendAttachmentToChat"]
             /\ UNCHANGED <<message, chatIdx, result, nextCalled>>

\* A failed text send that is passed over: the loop goes on.
TextSendFailed_Continue(w, err, reqs, logs) ==
    LoopFrom(w, chatIdx[w] + 1, message[w], reqs, logs)

\* SendMessageToChat returned an error (lines 301-304): the whole email is
\* rejected with it.
TextSendFailed(w, err, reqs, logs) ==
    Finish(w, message[w], TRUE, err, reqs, logs)

\* A failed attachment send that always rejects the email.
AttachmentSendFailed_AlwaysAbort(w, err, reqs, logs) ==
    Finish(w, message[w], TRUE, err, reqs, logs)

\* A failed attachment send that is sent again.
AttachmentSendFailed_Retry(w, err, reqs, logs) ==
    IF config.forwardedAttachmentRespectErrors
    THEN Finish(w, message[w], TRUE, err, reqs, logs)
    ELSE AttachmentsFrom(w, attIdx[w], sentMessage[w], reqs, logs)

\* SendAttachmentToChat returned an error (lines 308-315): returned when
\* forwardedAttachmentRespectErrors is set, logged otherwise.
AttachmentSendFailed(w, err, reqs, logs) ==
    IF config.forwardedAttachmentRespectErrors
    THEN Finish(w, message[w], TRUE, err, reqs, logs)
    ELSE AttachmentsFrom(w, attIdx[w] + 1, sentMessage[w], reqs,
             Append(logs,
                 [level |-> "error",
                  text |-> <<"Ignoring attachment sending error: ">> \o err]))

\* The processor is called with a task other than TaskSaveMail.
ProcessOtherTask(w) ==
    /\ pc[w] = "start"
    /\ task[w] # "TaskSaveMail"
    /\ Finish(w, message[w], FALSE, <<>>, requests, logged)
    /\ UNCHANGED <<config, active, task, envelope>>

\* The processor is called with TaskSaveMail: SendEmailToTelegram formats
\* the envelope and runs up to its first request.
ProcessSaveMail(w) ==
    /\ pc[w] = "start"
    /\ task[w] = "TaskSaveMail"
    /\ \E buf \in RuneBufs :
          \E msg \in {FormatEmail(envelope[w], config, buf)} :
              IF msg.status = "error"
              THEN Finish(w, msg, TRUE, msg.err, requests, logged)
              ELSE IF msg.status = "panic"
              THEN Panic(w, msg, sentMessage[w], requests, logged)
              ELSE LoopFrom(w, 1, msg, requests, logged)
    /\ UNCHANGED <<config, active, task, envelope>>

\* SendMessageToChat returns and SendEmailToTelegram runs on to its next
\* request or to its end.
SendMessageToChatReturns(w) ==
    /\ pc[w] = "SendMessageToChat"
    /\ \E resp \in SendMessageResponses :
          LET r == SendMessageToChatResult(resp, config)
          IN  IF r.isErr
              THEN TextSendFailed(w,
                          SanitizeBotToken(r.err, config.telegramBotToken),
                          MarkDone(requests, w, "failed", <<>>), logged)
              ELSE AttachmentsFrom(w, 1, r.sent,
                          MarkDone(requests, w, "ok", resp.MessageId),
                          logged)
    /\ UNCHANGED <<config, active, task, envelope>>

\* SendAttachmentToChat returns and SendEmailToTelegram runs on.
SendAttachmentToChatReturns(w) ==
    /\ pc[w] = "SendAttachmentToChat"
    /\ \E resp \in SendAttachmentResponses :
          LET r == SendAttachmentToChatResult(
                       resp, message[w].attachments[attIdx[w]], config)
              err == SanitizeBotToken(r.err, config.telegramBotToken)
          IN  IF r.isErr
              THEN AttachmentSendFailed(w, err,
                               MarkDone(requests, w, "failed", <<>>), logged)
              ELSE AttachmentsFrom(w, attIdx[w] + 1, sentMessage[w],
                               MarkDone(requests, w, "ok", <<>>), logged)
    /\ UNCHANGED <<config, active, task, envelope>>

----------------------------------------------------------------------------
(* One envelope through the processor *)

Str_ChatIds_a_111_222 ==
    <<"a", "@", "x", ":", "1", "1", "1", ",", "2", "2", "2">>
Str_ChatIds_111_222 == <<"1", "1", "1", ",", "2", "2", "2">>
Str_ChatIds_111 == <<"1", "1", "1">>
Str_ChatIds_a_111 == <<"a", "@", "x", ":", "1", "1", "1">>

ChatIdConfigs ==
    {Str_ChatIds_a_111_222, Str_ChatIds_111_222, Str_ChatIds_111,
     Str_ChatIds_a_111}

DispatchConfigs ==
    {MakeConfig(chatIds, <<TokBody>>, maxSize, 3, respect, threshold) :
        chatIds \in ChatIdConfigs,
        maxSize \in {0, DefaultForwardedAttachmentMaxSize},
        respect \in BOOLEAN,
        threshold \in {0, 1, DefaultMessageLengthToSendAsFile}}

DispatchEnvelopes ==
    {MakeEnvelope(from, <<"s">>, <<"y", "o">>, parts[1], parts[2], <<>>, perr) :
        from \in {Str_a_x, Str_b_x, Str_ba_x},
        parts \in {<<<<>>, <<>>>>, <<<<PartJpgInline>>, <<PartTxtAttachment>>>>},
        perr \in BOOLEAN}

Tasks == {"TaskSaveMail", "TaskValidateRcpt"}

Init ==
    /\ config \in DispatchConfigs
    /\ active = {1}
    /\ \E t \in Tasks :
          task = [w \in Workers |-> IF w = 1 THEN t ELSE "TaskSaveMail"]
    /\ \E e \in DispatchEnvelopes :
          envelope = [w \in Workers |-> IF w = 1 THEN e ELSE NoEnvelope]
    /\ pc = [w \in Workers |-> IF w = 1 THEN "start" ELSE "off"]
    /\ message = [w \in Workers |-> NoMessage]
    /\ chatIdx = [w \in Workers |-> 0]
    /\ attIdx = [w \in Workers |-> 0]
    /\ sentMessage = [w \in Workers |-> NoSentMessage]
    /\ requests = <<>>
    /\ logged = <<>>
    /\ result = [w \in Workers |-> NoResult]
    /\ nextCalled = [w \in Workers |-> 0]

Next ==
    \/ \E w \in active : ProcessOtherTask(w)
    \/ \E w \in active : ProcessSaveMail(w)
    \/ \E w \in active : SendMessageToChatReturns(w)
    \/ \E w \in active : SendAttachmentToChatReturns(w)

Spec == Init /\ [][Next]_vars

----------------------------------------------------------------------------
(* Two envelopes through the processor at once: two save workers *)

\* The envelopes of the two workers: one from a@x with one part, one from
\* b@x with one part or none.
ConcurrentEnvelopes ==
    {<<MakeEnvelope(Str_a_x, <<"s">>, <<"y", "o">>, <<>>,
                    <<PartTxtAttachment>>, <<>>, FALSE),
       MakeEnvelope(Str_b_x, <<"s">>, <<"h", "i">>, inlines, <<>>, <<>>, FALSE)>> :
        inlines \in {<<>>, <<PartJpgInline>>}}

ConcurrentConfigs ==
    {MakeConfig(chatIds, <<TokBody>>, DefaultForwardedAttachmentMaxSize, 3,
                respect, DefaultMessageLengthToSendAsFile) :
        chatIds \in {Str_ChatIds_a_111_222},
        respect \in BOOLEAN}

InitConcurrent ==
    /\ config \in ConcurrentConfigs
    /\ active = Workers
    /\ \E t \in Tasks :
          task = [w \in Workers |-> IF w = 1 THEN "TaskSaveMail" ELSE t]
    /\ \E es \in ConcurrentEnvelopes : envelope = [w \in Workers |-> es[w]]
    /\ pc = [w \in Workers |-> "start"]
    /\ message = [w \in Workers |-> NoMessage]
    /\ chatIdx = [w \in Workers |-> 0]
    /\ attIdx = [w \in Workers |-> 0]
    /\ sentMessage = [w \in Workers |-> NoSentMessage]
    /\ requests = <<>>
    /\ logged = <<>>
    /\ result = [w \in Workers |-> NoResult]
    /\ nextCalled = [w \in Workers |-> 0]

SpecConcurrent == InitConcurrent /\ [][Next]_vars

----------------------------------------------------------------------------
(* Properties of the formatter (checked under SpecFormat) *)

\* Worker w has called FormatEmail and it has returned or panicked.
Formatted(w) == pc[w] = "formatted"

\* The rendered full text of w's envelope.
FullTextOf(w) == FormatMessageOf(envelope[w], config, 0).full

\* The attachment list the formatter produces for w's envelope.
FormatterAttachmentsOf(w) == CollectParts(envelope[w], config).attachments

\* The full-message fallback document of w's envelope.
FallbackDocumentOf(w) ==
    [filename |-> StrFullMessageTxt, caption |-> StrFullMessage,
     content |-> FullTextOf(w), fileType |-> ATTACHMENT_TYPE_DOCUMENT]

\* FormatEmail returned a notification whose text is not the full text.
TruncationHappened(w) ==
    /\ Formatted(w)
    /\ message[w].status = "ok"
    /\ message[w].text # FullTextOf(w)

\* C1: whenever FormatEmail returns a notification, its text has at most
\* 4096 runes, whatever the template, the envelope and the configuration
\* (a threshold above 4096 included).
C1_TextWithinPlatformLimit ==
    \A w \in active :
        (Formatted(w) /\ message[w].status = "ok")
            => Len(message[w].text) <= TelegramMessageLimit

\* C2: whenever the full text has more runes than the threshold (0
\* included) and FormatEmail succeeds, the returned text has at most
\* threshold runes and the attachments contain the fallback document.
C2_OverThresholdShrunkAndAttached ==
    \A w \in active :
        (/\ Formatted(w)
         /\ message[w].status = "ok"
         /\ Len(FullTextOf(w)) > config.messageLengthToSendAsFile)
            => /\ Len(message[w].text) <= config.messageLengthToSendAsFile
               /\ \E i \in 1..Len(message[w].attachments) :
                     message[w].attachments[i] = FallbackDocumentOf(w)

\* C3: when the full text has at most threshold runes, the notification
\* text is the full text, and the attachments are exactly the formatter's
\* (so no fallback document is added).
C3_WithinThresholdUnchanged ==
    \A w \in active :
        (Formatted(w) /\ ~envelope[w].ParseError
         /\ Len(FullTextOf(w)) <= config.messageLengthToSendAsFile)
            => /\ message[w].status = "ok"
               /\ message[w].text = FullTextOf(w)
               /\ message[w].attachments = FormatterAttachmentsOf(w)

\* C3's case: a full text of exactly threshold runes, with two attachments
\* from the formatter, has been returned.
C3_Witness ==
    \E w \in active :
        /\ Formatted(w)
        /\ message[w].status = "ok"
        /\ config.messageLengthToSendAsFile > 0
        /\ Len(FullTextOf(w)) = config.messageLengthToSendAsFile
        /\ Len(message[w].attachments) = 2

\* C4: when truncation happens, the fallback document (full_message.txt,
\* a document, holding the untouched full text) is the first attachment
\* and the formatter's attachments follow it, in order, none added or
\* removed.
C4_FallbackFirstOthersInOrder ==
    \A w \in active :
        TruncationHappened(w)
            => /\ Len(message[w].attachments) = Len(FormatterAttachmentsOf(w)) + 1
               /\ message[w].attachments[1] = FallbackDocumentOf(w)
               /\ Tail(message[w].attachments) = FormatterAttachmentsOf(w)

\* C4's case: a truncated notification with two attachments of the
\* formatter behind the fallback document.
C4_Witness ==
    \E w \in active :
        /\ TruncationHappened(w)
        /\ Len(FormatterAttachmentsOf(w)) = 2
        /\ Len(message[w].attachments) = 3

----------------------------------------------------------------------------
(* Properties of the dispatch (checked under Spec) *)

ReqIdx == 1..Len(requests)

\* The requests of worker w, as indices of the log.
RequestsOf(w) == {i \in ReqIdx : requests[i].worker = w}

IsTextRequest(i) == requests[i].method = "sendMessage"
IsAttachmentRequest(i) == requests[i].method \in {"sendDocument", "sendPhoto"}

\* The sender filter and chat id of the i-th configured destination.
EntryOf(i) == ParseChatId(ChatIds(config)[i])

\* The sender address of w's envelope.
SenderOf(w) == AddressString(envelope[w].MailFrom)

\* The configured destinations whose filter occurs in w's sender address
\* (an empty filter occurs in every address).
MatchingOf(w) ==
    {i \in 1..Len(ChatIds(config)) : Contains(SenderOf(w), EntryOf(i).fromMail)}

\* Worker w runs SendEmailToTelegram and FormatEmail gave it a notification.
Dispatching(w) ==
    /\ task[w] = "TaskSaveMail"
    /\ pc[w] \notin {"start", "off"}
    /\ message[w].status = "ok"

\* C5: a failed text send ends the dispatch with an error: it is the last
\* request of the dispatch, so no attachment goes to that destination and
\* no request to a later destination, and the next processor is not called.
C5_TextFailureAborts ==
    \A i \in ReqIdx :
        (IsTextRequest(i) /\ requests[i].status = "failed")
            => LET w == requests[i].worker
               IN  /\ pc[w] = "done"
                   /\ result[w].isErr
                   /\ result[w].err # <<>>
                   /\ \A j \in RequestsOf(w) : j <= i
                   /\ \A j \in RequestsOf(w) :
                         requests[j].dest = requests[i].dest => j = i

\* C5's case: the text send to the first of two matching destinations has
\* failed, and the notification has attachments.
C5_Witness ==
    \E i \in ReqIdx :
        /\ IsTextRequest(i) /\ requests[i].status = "failed"
        /\ requests[i].dest = 1
        /\ 2 \in MatchingOf(requests[i].worker)
        /\ Len(message[requests[i].worker].attachments) >= 1

\* The error lines the dispatch has logged.
ErrorLines == {n \in 1..Len(logged) : logged[n].level = "error"}

\* The matching destinations of w after destination d.
LaterMatching(w, d) == {n \in MatchingOf(w) : n > d}

\* The first element of a non-empty set of numbers.
Least(S) == CHOOSE n \in S : \A m \in S : n <= m

\* C6: a failed attachment send, with forwardedAttachmentRespectErrors,
\* ends the dispatch with an error and is its last request; without it,
\* the failure is logged, the next attachment or else the next matching
\* destination gets its request, and the dispatch succeeds if no text
\* send failed.
C6_AttachmentFailurePolicy ==
    /\ \A i \in ReqIdx :
        (IsAttachmentRequest(i) /\ requests[i].status = "failed")
            => LET w == requests[i].worker
                   d == requests[i].dest
                   k == requests[i].att
               IN  IF config.forwardedAttachmentRespectErrors
                   THEN /\ pc[w] = "done"
                        /\ result[w].isErr
                        /\ nextCalled[w] = 0
                        /\ \A j \in RequestsOf(w) : j <= i
                   ELSE IF k < Len(message[w].attachments)
                   THEN \E j \in RequestsOf(w) :
                           /\ j > i
                           /\ requests[j].dest = d
                           /\ requests[j].att = k + 1
                   ELSE IF LaterMatching(w, d) # {}
                   THEN \E j \in RequestsOf(w) :
                           /\ j > i
                           /\ requests[j].dest = Least(LaterMatching(w, d))
                           /\ IsTextRequest(j)
                   ELSE /\ pc[w] = "done"
                        /\ ~result[w].isErr
                        /\ nextCalled[w] = 1
    /\ Cardinality(ErrorLines) =
          IF config.forwardedAttachmentRespectErrors THEN 0
          ELSE Cardinality({i \in ReqIdx : IsAttachmentRequest(i)
                                           /\ requests[i].status = "failed"})
    /\ \A w \in active :
          (/\ Dispatching(w) /\ pc[w] = "done"
           /\ ~config.forwardedAttachmentRespectErrors
           /\ \A i \in RequestsOf(w) :
                 IsTextRequest(i) => requests[i].status = "ok")
              => ~result[w].isErr /\ nextCalled[w] = 1

\* C6's case: without forwardedAttachmentRespectErrors an attachment send
\* to the first destination failed, the dispatch went on to the second
\* destination and ended without error.
C6_Witness ==
    /\ ~config.forwardedAttachmentRespectErrors
    /\ \E i \in ReqIdx :
          /\ IsAttachmentRequest(i) /\ requests[i].status = "failed"
          /\ requests[i].dest = 1
          /\ pc[requests[i].worker] = "done"
          /\ ~result[requests[i].worker].isErr
          /\ \E j \in ReqIdx : j > i /\ requests[j].dest = 2
                               /\ IsAttachmentRequest(j)

Str_111 == <<"1", "1", "1">>
Str_222 == <<"2", "2", "2">>

\* C7: a destination whose filter does not occur in the sender address
\* gets no request, and skipping it is no error; a destination without
\* filter has got the text whenever the dispatch ends without error.  With
\* a@x:111,222 and sender b@x nothing goes to 111 and the text goes to 222.
C7_SenderFilter ==
    /\ \A i \in ReqIdx :
          requests[i].dest \in MatchingOf(requests[i].worker)
    /\ \A w \in active :
          (/\ Dispatching(w) /\ pc[w] = "done"
           /\ \A i \in RequestsOf(w) : requests[i].status = "ok")
              => ~result[w].isErr
    /\ \A w \in active :
          (Dispatching(w) /\ pc[w] = "done" /\ ~result[w].isErr)
              => \A d \in 1..Len(ChatIds(config)) :
                    EntryOf(d).fromMail = <<>>
                        => \E i \in RequestsOf(w) :
                              /\ IsTextRequest(i)
                              /\ requests[i].dest = d
                              /\ requests[i].chat_id = EntryOf(d).chatId
                              /\ requests[i].text = message[w].text
    /\ \A w \in active :
          (/\ config.telegramChatIds = Str_ChatIds_a_111_222
           /\ envelope[w].MailFrom = Str_b_x
           /\ Dispatching(w))
              => /\ \A i \in RequestsOf(w) : requests[i].chat_id # Str_111
                 /\ IsTextRequest(1)
                 /\ requests[1].chat_id = Str_222

\* C7's case: a@x:111,222 with sender b@x, dispatched without error.
C7_Witness ==
    \E w \in active :
        /\ config.telegramChatIds = Str_ChatIds_a_111_222
        /\ envelope[w].MailFrom = Str_b_x
        /\ Dispatching(w) /\ pc[w] = "done" /\ ~result[w].isErr
        /\ \E i \in RequestsOf(w) : requests[i].chat_id = Str_222

\* The text request of worker w to destination d.
TextRequestOf(w, d) ==
    CHOOSE i \in RequestsOf(w) : IsTextRequest(i) /\ requests[i].dest = d

\* C8: within one dispatch a request is made only when every earlier one
\* has returned; the requests of a destination are its text and then its
\* attachments in list order; destinations come in configured order; and
\* an attachment is a reply to the message that the text send to the same
\* destination returned.
C8_SequentialAndLinked ==
    \A w \in active :
        /\ \A i, j \in RequestsOf(w) :
              i < j =>
                 /\ requests[i].status # "pending"
                 /\ requests[i].dest <= requests[j].dest
                 /\ requests[i].dest = requests[j].dest
                       => requests[i].att < requests[j].att
        /\ \A j \in RequestsOf(w) :
              /\ requests[j].att = 0 <=> IsTextRequest(j)
              /\ IsAttachmentRequest(j) =>
                    /\ \E i \in RequestsOf(w) :
                          /\ i < j /\ requests[i].dest = requests[j].dest
                          /\ requests[i].att = requests[j].att - 1
                    /\ LET t == TextRequestOf(w, requests[j].dest)
                           a == message[w].attachments[requests[j].att]
                       IN  /\ t < j
                           /\ requests[t].status = "ok"
                           /\ requests[t].message_id \in MessageIds
                           /\ requests[j].reply_to_message_id
                                 = requests[t].message_id
                           /\ requests[j].chat_id = requests[t].chat_id
                           /\ requests[j].content = a.content
                           /\ requests[j].filename = a.filename
                           /\ requests[j].caption = a.caption

\* C8's case: two destinations whose text sends returned different message
\* identifiers, each followed by at least two attachments.
C8_Witness ==
    \E w \in active :
        \E i, j \in RequestsOf(w) :
            /\ IsAttachmentRequest(i) /\ IsAttachmentRequest(j)
            /\ requests[i].dest = 1 /\ requests[j].dest = 2
            /\ requests[i].att = 2 /\ requests[j].att = 2
            /\ requests[i].reply_to_message_id
                  # requests[j].reply_to_message_id

\* C9: when every request of a finished dispatch succeeded, each matching
\* destination got exactly one text send and exactly one send per
\* attachment, and nothing else was sent; and no request is ever made
\* twice.
C9_ExactlyOncePerDestination ==
    \A w \in active :
        /\ \A i, j \in RequestsOf(w) :
              (requests[i].dest = requests[j].dest
               /\ requests[i].att = requests[j].att) => i = j
        /\ (/\ Dispatching(w) /\ pc[w] = "done"
            /\ \A i \in RequestsOf(w) : requests[i].status = "ok")
              => LET n == Len(message[w].attachments)
                     texts == {i \in RequestsOf(w) : IsTextRequest(i)}
                     files == {i \in RequestsOf(w) : IsAttachmentRequest(i)}
                 IN  /\ Cardinality(texts) = Cardinality(MatchingOf(w))
                     /\ Cardinality(files) = n * Cardinality(MatchingOf(w))
                     /\ \A d \in MatchingOf(w) : \A k \in 0..n :
                           \E i \in RequestsOf(w) :
                               requests[i].dest = d /\ requests[i].att = k

\* C9's case: a dispatch to two destinations with three attachments has
\* finished with every request successful, and one with a failed request
\* is covered by the first conjunct in every state.
C9_Witness ==
    \E w \in active :
        /\ Dispatching(w) /\ pc[w] = "done"
        /\ \A i \in RequestsOf(w) : requests[i].status = "ok"
        /\ Cardinality(MatchingOf(w)) = 2
        /\ Len(message[w].attachments) = 3
        /\ Cardinality(RequestsOf(w)) = 8

\* SendEmailToTelegram of worker w has returned an error: FormatEmail
\* failed, a text send failed, or an attachment send failed with
\* forwardedAttachmentRespectErrors.
SendReturnedError(w) ==
    \/ message[w].status = "error"
    \/ \E i \in RequestsOf(w) :
          /\ requests[i].status = "failed"
          /\ IsTextRequest(i) \/ config.forwardedAttachmentRespectErrors

\* C10: for TaskSaveMail the next processor is called iff
\* SendEmailToTelegram returned no error, and on error the result is
\* "554 Error: " followed by the error text, returned with the error; for
\* any other task the next processor is called and nothing is sent.
C10_ProcessorResult ==
    \A w \in active :
        /\ nextCalled[w] \in {0, 1}
        /\ pc[w] # "done" => nextCalled[w] = 0 /\ result[w] = NoResult
        /\ (pc[w] = "done" /\ task[w] = "TaskSaveMail") =>
              /\ nextCalled[w] = 1 <=> ~SendReturnedError(w)
              /\ result[w].isErr <=> SendReturnedError(w)
              /\ result[w].isErr =>
                    /\ result[w].err # <<>>
                    /\ result[w].code = <<"554 Error: ">> \o result[w].err
        /\ (pc[w] = "done" /\ task[w] # "TaskSaveMail") =>
              /\ nextCalled[w] = 1
              /\ ~result[w].isErr
              /\ RequestsOf(w) = {}
              /\ message[w] = NoMessage

\* C10's case: a save-mail task has been rejected with a 554 result.
C10_Witness ==
    \E w \in active :
        /\ pc[w] = "done" /\ task[w] = "TaskSaveMail"
        /\ result[w].isErr /\ nextCalled[w] = 0
        /\ requests # <<>>

\* The requests of worker w that came back with an error.
FailedRequestsOf(w) == {i \in RequestsOf(w) : requests[i].status = "failed"}

StrRedacted == <<"*", "*", "*">>

\* C11: the error returned for a failed text or attachment send, the 554
\* result made of it, and every attachment error that is logged, do not
\* contain the bot token.
C11_TokenRedacted ==
    /\ \A w \in active :
          (pc[w] = "done" /\ result[w].isErr /\ FailedRequestsOf(w) # {})
              => /\ ~Contains(result[w].err, config.telegramBotToken)
                 /\ ~Contains(result[w].code, config.telegramBotToken)
    /\ \A n \in ErrorLines :
          ~Contains(logged[n].text, config.telegramBotToken)

\* C11's case: an attachment error whose text named the token has been
\* logged, and then a failed text send whose error named the token has
\* been returned; both show *** in its place.
C11_Witness ==
    /\ \E n \in ErrorLines : Contains(logged[n].text, StrRedacted)
    /\ \E w \in active :
          /\ pc[w] = "done" /\ result[w].isErr
          /\ \E i \in FailedRequestsOf(w) : IsTextRequest(i)
          /\ Contains(result[w].err, StrRedacted)
          /\ Contains(result[w].code, StrRedacted)

\* Worker w runs or has run SendEmailToTelegram on an envelope that enmime
\* could read.
SaveMailStarted(w) ==
    /\ task[w] = "TaskSaveMail"
    /\ pc[w] \notin {"start", "off"}
    /\ ~envelope[w].ParseError

\* C12: when the full text has more runes than the threshold and more
\* bytes than forwardedAttachmentMaxSize (0 included), FormatEmail returns
\* an error, SendEmailToTelegram returns it and no request is made.
C12_SizeExceededRejects ==
    \A w \in active :
        (/\ SaveMailStarted(w)
         /\ Len(FullTextOf(w)) > config.messageLengthToSendAsFile
         /\ ByteLen(FullTextOf(w)) > config.forwardedAttachmentMaxSize)
            => /\ message[w].status = "error"
               /\ pc[w] = "done"
               /\ result[w].isErr
               /\ RequestsOf(w) = {}

\* C13: when enmime cannot read the envelope, FormatEmail still returns a
\* notification, made of the raw data; the dispatch makes its requests to
\* the matching destinations, and the processor returns an error only if a
\* send failed.
C13_ParseFailureBestEffort ==
    \A w \in active :
        (/\ task[w] = "TaskSaveMail"
         /\ pc[w] \notin {"start", "off"}
         /\ envelope[w].ParseError)
            => /\ message[w].status = "ok"
               /\ Contains(FullTextOf(w), envelope[w].Data)
               /\ MatchingOf(w) # {} => RequestsOf(w) # {}
               /\ (pc[w] = "done" /\ result[w].isErr)
                     => FailedRequestsOf(w) # {}

----------------------------------------------------------------------------
(* Properties of the parts (checked under SpecParts) *)

\* The summary line of part p of a group with the given emoji, with its
\* type as declared and the given outcome word.
SummaryLine(emoji, p, action) ==
    <<"-", " ", emoji, " ">> \o p.FileName \o <<" ", "(">> \o p.ContentType
    \o <<")", " ">> \o Digits(ByteLen(p.Content)) \o <<"B", ",", " ">>
    \o action

\* The inline and attachment parts of w's envelope, each with the emoji of
\* its group.
SummarisedPartsOf(w) ==
    {<<Rune4Link, envelope[w].Inlines[i]>> : i \in 1..Len(envelope[w].Inlines)}
    \cup {<<Rune4Clip, envelope[w].Attachments[i]>> :
              i \in 1..Len(envelope[w].Attachments)}

\* The parts of SummarisedPartsOf(w) declared image/jpeg or image/png that
\* are no copy of the body.
ImagePartsOf(w) ==
    {ep \in SummarisedPartsOf(w) :
        /\ ep[2].ContentType \in {TypeJpeg, TypePng}
        /\ ep[2].Content # envelope[w].Text}

\* The notification of w says sending for part ep and forwards it with the
\* given kind.
ForwardedAs(w, ep, kind) ==
    /\ Contains(message[w].text, SummaryLine(ep[1], ep[2], StrSending))
    /\ ~Contains(message[w].text, SummaryLine(ep[1], ep[2], StrDiscarded))
    /\ \E i \in 1..Len(message[w].attachments) :
          message[w].attachments[i] =
              [filename |-> ep[2].FileName, caption |-> ep[2].FileName,
               content |-> ep[2].Content, fileType |-> kind]
    /\ \A i \in 1..Len(message[w].attachments) :
          message[w].attachments[i].filename = ep[2].FileName
              => message[w].attachments[i].fileType = kind

\* The notification of w says discarded for part ep and does not forward it.
Discarded(w, ep) ==
    /\ Contains(message[w].text, SummaryLine(ep[1], ep[2], StrDiscarded))
    /\ ~Contains(message[w].text, SummaryLine(ep[1], ep[2], StrSending))
    /\ \A i \in 1..Len(message[w].attachments) :
          message[w].attachments[i].filename # ep[2].FileName

----------------------------------------------------------------------------
(* Properties of the truncation (checked under SpecFormat) *)

\* The body FormatEmail hands to FormatMessage for w's envelope, trimmed.
TrimmedBodyOf(w) ==
    LET parts == CollectParts(envelope[w], config)
    IN  TrimSpace(IF parts.text = <<>> THEN envelope[w].Data ELSE parts.text)

\* The empty-body variant of w's envelope: the template rendered with the
\* body replaced by a dot and the truncation marker.
EmptyTextOf(w) ==
    LET parts == CollectParts(envelope[w], config)
    IN  TrimSpace(Replace(config.messageTemplate,
                          AddressString(envelope[w].MailFrom),
                          JoinEmailAddresses(envelope[w].RcptTo),
                          envelope[w].Subject,
                          TrimSpace(<<".">> \o BodyTruncated),
                          FormatAttachmentsDetails(parts.attachmentsDetails)))

\* FormatEmail has run on w's envelope, whose full text is over the
\* threshold and whose empty-body variant reaches the threshold.
HardCutCase(w) ==
    /\ Formatted(w)
    /\ Len(FullTextOf(w)) > config.messageLengthToSendAsFile
    /\ Len(EmptyTextOf(w)) >= config.messageLengthToSendAsFile

\* FormatEmail has run on w's envelope, whose full text is over the
\* threshold and whose empty-body variant is below the threshold.
ProperTruncationCase(w) ==
    /\ Formatted(w)
    /\ Len(FullTextOf(w)) > config.messageLengthToSendAsFile
    /\ Len(EmptyTextOf(w)) < config.messageLengthToSendAsFile

\* The attachments of w's notification contain the fallback document.
FallbackAttached(w) ==
    \E i \in 1..Len(message[w].attachments) :
        message[w].attachments[i] = FallbackDocumentOf(w)

\* C15: in the hard-cut case a notification that FormatEmail returns has
\* as text the first threshold runes of the full text, and the fallback
\* document is attached.
C15_HardCut ==
    \A w \in active :
        (HardCutCase(w) /\ message[w].status = "ok")
            => /\ message[w].text =
                     SubSeq(FullTextOf(w), 1, config.messageLengthToSendAsFile)
               /\ Len(message[w].text) = config.messageLengthToSendAsFile
               /\ FallbackAttached(w)

StrTruncatedMarker == <<"[", "t", "r", "u", "n", "c", "a", "t", "e", "d", "]">>

\* s ends with suffix.
EndsWith(s, suffix) ==
    /\ Len(s) >= Len(suffix)
    /\ SubSeq(s, Len(s) - Len(suffix) + 1, Len(s)) = suffix

\* C16: when the full text is one rune over the threshold and the
\* empty-body variant is below the threshold, then, unless the full text
\* is too large for the document ceiling, FormatEmail returns a
\* notification with the fallback document, whose text is shorter than
\* the full text and ends with [truncated].
C16_OneOverThreshold ==
    \A w \in active :
        (/\ ProperTruncationCase(w)
         /\ Len(FullTextOf(w)) = config.messageLengthToSendAsFile + 1
         /\ message[w].status # "error")
            => /\ message[w].status = "ok"
               /\ FallbackAttached(w)
               /\ Len(message[w].text) < Len(FullTextOf(w))
               /\ EndsWith(message[w].text, StrTruncatedMarker)

\* C18: FormatEmail never ends in the panic "Unexpected length of
\* truncated message".
C18_NoUnexpectedLength ==
    \A w \in active :
        ProperTruncationCase(w)
            => message[w].err # <<"Unexpected length of truncated message">>

\* The body budget of w's envelope: threshold minus the length of the
\* empty-body variant.
BodyBudgetOf(w) == config.messageLengthToSendAsFile - Len(EmptyTextOf(w))

\* C19: in the proper-truncation case the body budget is at most the
\* length of the trimmed body, and the slice of the body does not abort
\* FormatEmail.
C19_BudgetWithinBody ==
    \A w \in active :
        ProperTruncationCase(w)
            => /\ BodyBudgetOf(w) <= Len(TrimmedBodyOf(w))
               /\ message[w].err # <<"slice bounds out of range">>

----------------------------------------------------------------------------
(* Properties of the rendering (checked under SpecFormat) *)

\* "From: from@test\nTo: to@test\nSubject: \n\nhi"
StrTestSuccessText ==
    <<"F", "r", "o", "m", ":", " ", "f", "r", "o", "m", "@", "t", "e", "s", "t",
      "\n", "T", "o", ":", " ", "t", "o", "@", "t", "e", "s", "t",
      "\n", "S", "u", "b", "j", "e", "c", "t", ":", " ",
      "\n", "\n", "h", "i">>

\* w's envelope has no inline, attachment or other part.
NoParts(w) ==
    /\ envelope[w].Inlines = <<>>
    /\ envelope[w].Attachments = <<>>
    /\ envelope[w].OtherParts = <<>>

\* The outcome word of a part of the given size under the document ceiling.
DocumentAction(size) ==
    IF size <= config.forwardedAttachmentMaxSize THEN StrSending
    ELSE StrDiscarded

\* FormatEmail has returned, as the text of w's notification, a full text
\* that was not truncated.
ReturnedInFull(w) ==
    /\ Formatted(w)
    /\ message[w].status = "ok"
    /\ Len(FullTextOf(w)) <= config.messageLengthToSendAsFile

\* C17: a text returned in full has no white space at its ends; without
\* parts it has no Attachments: header, and {attachments_details} adds
\* nothing to it; with the inline jpeg and the attached txt file, a template
\* with {attachments_details} gives the header and the two summary lines;
\* and TestSuccess's envelope under the default template gives exactly
\* the three header lines, a blank line and hi.
C17_DetailsAndTrim ==
    \A w \in active :
        /\ (ReturnedInFull(w) /\ message[w].text # <<>>)
              => /\ ~IsSpace(message[w].text[1])
                 /\ ~IsSpace(message[w].text[Len(message[w].text)])
        /\ (ReturnedInFull(w) /\ NoParts(w))
              => /\ ~Contains(message[w].text, StrAttachmentsHeader)
                 /\ config.messageTemplate = <<TokSubject, TokDetails>>
                       => message[w].text = envelope[w].Subject
        /\ (/\ ReturnedInFull(w)
            /\ envelope[w].Inlines = <<PartJpgInline>>
            /\ envelope[w].Attachments = <<PartTxtAttachment>>
            /\ \E i \in 1..Len(config.messageTemplate) :
                  config.messageTemplate[i] = TokDetails)
              => EndsWith(message[w].text,
                    StrAttachmentsHeader
                    \o SummaryLine(Rune4Link, PartJpgInline, StrSending)
                    \o <<"\n">>
                    \o SummaryLine(Rune4Clip, PartTxtAttachment,
                                   DocumentAction(2)))
        /\ (/\ Formatted(w)
            /\ envelope[w] = EnvelopeTestSuccess
            /\ config.messageTemplate = DefaultTemplate
            /\ config.messageLengthToSendAsFile >= Len(StrTestSuccessText))
              => /\ message[w].status = "ok"
                 /\ message[w].text = StrTestSuccessText
                 /\ message[w].attachments = <<>>

\* C17's case: TestSuccess's envelope rendered with the default template
\* and the default threshold.
C17_Witness ==
    \E w \in active :
        /\ Formatted(w)
        /\ envelope[w] = EnvelopeTestSuccess
        /\ config.messageTemplate = DefaultTemplate
        /\ config.messageLengthToSendAsFile = DefaultMessageLengthToSendAsFile
        /\ message[w].text = StrTestSuccessText

----------------------------------------------------------------------------
(* Properties of the sender filter (checked under Spec) *)

\* s starts with prefix (s = prefix included).
StartsWith(s, prefix) ==
    /\ Len(s) >= Len(prefix)
    /\ SubSeq(s, 1, Len(prefix)) = prefix

\* C20: a request goes to a destination with a sender filter only if the
\* sender address is the filter or starts with it.
C20_FilterIsPrefix ==
    \A i \in ReqIdx :
        LET F == EntryOf(requests[i].dest).fromMail
        IN  F # <<>> => StartsWith(SenderOf(requests[i].worker), F)

----------------------------------------------------------------------------
(* Properties of the error texts (checked under Spec) *)

\* The text holds a carriage return or a line feed.
HasRawNewline(s) == Contains(s, <<"\r">>) \/ Contains(s, <<"\n">>)

\* C21: the error that SendEmailToTelegram returns, and the 554 result made
\* of it, hold no raw carriage return and no raw line feed, whether the
\* error comes from a failed send or from FormatEmail.
C21_NoRawNewlines ==
    \A w \in active :
        (pc[w] = "done" /\ result[w].isErr)
            => /\ ~HasRawNewline(result[w].err)
               /\ ~HasRawNewline(result[w].code)

----------------------------------------------------------------------------
(* Properties of the classifier (checked under SpecParts) *)

\* The summary line of part p with its resolved type.
ResolvedSummaryLine(emoji, p, action) ==
    <<"-", " ", emoji, " ">> \o p.FileName \o <<" ", "(">>
    \o GuessContentType(p.ContentType, p.FileName)
    \o <<")", " ">> \o Digits(ByteLen(p.Content)) \o <<"B", ",", " ">>
    \o action

\* The inline and attachment parts of w's envelope that are no copy of the
\* plain-text body.
RemainingPartsOf(w) ==
    {ep \in SummarisedPartsOf(w) : ep[2].Content # envelope[w].Text}

\* The attachments of w's notification made of part p.
AttachmentsOfPart(w, p) ==
    {i \in 1..Len(message[w].attachments) :
        /\ message[w].attachments[i].filename = p.FileName
        /\ message[w].attachments[i].caption = p.FileName
        /\ message[w].attachments[i].content = p.Content}

\* Part ep is forwarded with the given kind: its line says sending and the
\* attachments made of it are of that kind.
SentAs(w, ep, kind) ==
    /\ Contains(message[w].text, ResolvedSummaryLine(ep[1], ep[2], StrSending))
    /\ ~Contains(message[w].text,
                 ResolvedSummaryLine(ep[1], ep[2], StrDiscarded))
    /\ AttachmentsOfPart(w, ep[2]) # {}
    /\ \A i \in AttachmentsOfPart(w, ep[2]) :
          message[w].attachments[i].fileType = kind

\* Part ep is discarded: its line says so and no attachment is made of it.
NotSent(w, ep) ==
    /\ Contains(message[w].text,
                ResolvedSummaryLine(ep[1], ep[2], StrDiscarded))
    /\ ~Contains(message[w].text, ResolvedSummaryLine(ep[1], ep[2], StrSending))
    /\ AttachmentsOfPart(w, ep[2]) = {}

AttachmentsOfKind(w, kind) ==
    {i \in 1..Len(message[w].attachments) :
        message[w].attachments[i].fileType = kind}

\* C23: a ceiling of 0 disables its path for every part, a part of no
\* bytes included: with photo ceiling 0 nothing is forwarded as a photo,
\* with document ceiling 0 nothing is forwarded as a document, and with
\* both at 0 the attachments list is empty and every summary line says
\* discarded.
C23_ZeroCeilingDisables ==
    \A w \in active :
        (Formatted(w) /\ message[w].status = "ok") =>
            LET P == config.forwardedAttachmentMaxPhotoSize
                D == config.forwardedAttachmentMaxSize
            IN  /\ P = 0 => AttachmentsOfKind(w, ATTACHMENT_TYPE_PHOTO) = {}
                /\ D = 0 => AttachmentsOfKind(w, ATTACHMENT_TYPE_DOCUMENT) = {}
                /\ (P = 0 /\ D = 0) =>
                      /\ message[w].attachments = <<>>
                      /\ \A ep \in RemainingPartsOf(w) : NotSent(w, ep)

\* The parts of a group, each with the emoji of the group.
TagParts(emoji, parts) == [i \in 1..Len(parts) |-> <<emoji, parts[i]>>]

\* The parts of w's envelope that get a summary line, in the order the
\* claim gives: the inline parts, the attachment parts (both without the
\* copies of the body), the other parts.
OrderedPartsOf(w) ==
    LET NoCopy(ep) == ep[2].Content # envelope[w].Text
    IN  SelectSeq(TagParts(Rune4Link, envelope[w].Inlines), NoCopy)
        \o SelectSeq(TagParts(Rune4Clip, envelope[w].Attachments), NoCopy)
        \o TagParts(Rune3, envelope[w].OtherParts)

\* The lines of a text: what stands between its line feeds.
LinesOf(s) ==
    LET nl == {i \in 1..Len(s) : s[i] = "\n"}
        cut == nl \cup {0, Len(s) + 1}
        Nth(k) == CHOOSE i \in cut : Cardinality({j \in cut : j < i}) = k
    IN  [k \in 1..(Cardinality(nl) + 1) |->
            SubSeq(s, Nth(k - 1) + 1, Nth(k) - 1)]

\* The summary lines of w's notification: the lines of its text that start
\* with "- ".
DetailLinesOf(w) ==
    LET IsDetail(line) == StartsWith(line, <<"-", " ">>)
    IN  SelectSeq(LinesOf(message[w].text), IsDetail)

\* The parts of a sequence of <<line, part>> pairs whose line says sending.
SendingPartsOf(lines, parts) ==
    LET pairs == [i \in 1..Len(lines) |-> <<lines[i], parts[i][2]>>]
        Sending(lp) == EndsWith(lp[1], StrSending)
        sel == SelectSeq(pairs, Sending)
    IN  [i \in 1..Len(sel) |-> sel[i][2]]

\* C24: the summary lines are those of the inline parts in input order,
\* then of the attachment parts in input order, then of the other parts in
\* input order; and the attachments list holds exactly the parts whose line
\* says sending, in the order of their lines.
C24_OrderOfLinesAndAttachments ==
    \A w \in active :
        (Formatted(w) /\ message[w].status = "ok") =>
            LET lines == DetailLinesOf(w)
                parts == OrderedPartsOf(w)
            IN  /\ Len(lines) = Len(parts)
                /\ \A i \in 1..Len(lines) :
                      lines[i] \in
                          {ResolvedSummaryLine(parts[i][1], parts[i][2], a) :
                              a \in {StrSending, StrDiscarded}}
                /\ LET sent == SendingPartsOf(lines, parts)
                   IN  /\ Len(message[w].attachments) = Len(sent)
                       /\ \A k \in 1..Len(sent) :
                             /\ message[w].attachments[k].filename
                                   = sent[k].FileName
                             /\ message[w].attachments[k].content
                                   = sent[k].Content

\* C24's case: two different inline parts, an attachment part and an other
\* part; the first line says discarded, later lines say sending, and two
\* parts are forwarded.
C24_Witness ==
    \E w \in active :
        /\ Formatted(w) /\ message[w].status = "ok"
        /\ Len(envelope[w].Inlines) = 2
        /\ envelope[w].Inlines[1] # envelope[w].Inlines[2]
        /\ Len(envelope[w].Attachments) = 1
        /\ envelope[w].Attachments[1] \notin
              {envelope[w].Inlines[1], envelope[w].Inlines[2]}
        /\ Len(envelope[w].OtherParts) = 1
        /\ Len(DetailLinesOf(w)) = 4
        /\ EndsWith(DetailLinesOf(w)[1], StrDiscarded)
        /\ EndsWith(DetailLinesOf(w)[2], StrSending)
        /\ EndsWith(DetailLinesOf(w)[3], StrSending)
        /\ Len(message[w].attachments) = 2

\* C25: a part of the other group goes through the classifier like an
\* inline or attachment part: when it fits the photo ceiling (as an image)
\* or the document ceiling, its summary line says sending and it is in the
\* attachments list; it is discarded only when it fits neither.
C25_OtherPartsClassified ==
    \A w \in active :
        (Formatted(w) /\ message[w].status = "ok") =>
            \A ep \in {<<Rune3, envelope[w].OtherParts[i]>> :
                          i \in 1..Len(envelope[w].OtherParts)} :
                LET t == GuessContentType(ep[2].ContentType, ep[2].FileName)
                    n == ByteLen(ep[2].Content)
                    P == config.forwardedAttachmentMaxPhotoSize
                    D == config.forwardedAttachmentMaxSize
                    photo == t \in {TypeJpeg, TypePng} /\ n <= P
                IN  /\ photo => SentAs(w, ep, ATTACHMENT_TYPE_PHOTO)
                    /\ (~photo /\ n <= D)
                          => SentAs(w, ep, ATTACHMENT_TYPE_DOCUMENT)
                    /\ (~photo /\ n > D) => NotSent(w, ep)

----------------------------------------------------------------------------
(* Properties of the body selection (checked under SpecBody) *)

\* The inline parts and then the attachment parts of w's envelope.
AllPartsOf(w) ==
    TagParts(Rune4Link, envelope[w].Inlines)
    \o TagParts(Rune4Clip, envelope[w].Attachments)

\* A sequence without its k-th element.
Without(seq, k) ==
    [i \in 1..(Len(seq) - 1) |-> IF i < k THEN seq[i] ELSE seq[i + 1]]

\* The body of w's notification under the template of BodyConfigs: its
\* first line, unless that is a summary line.
BodyOf(w) ==
    LET first == LinesOf(message[w].text)[1]
    IN  IF StartsWith(first, <<"-", " ">>) \/ first = TrimSpace(StrAttachmentsHeader)
        THEN <<>> ELSE first

\* The summary lines of w's notification are those of the given parts, one
\* each and in their order, and the attachments list holds exactly those
\* whose line says sending.
SummarisedExactly(w, parts) ==
    LET lines == DetailLinesOf(w)
    IN  /\ Len(lines) = Len(parts)
        /\ \A i \in 1..Len(lines) :
              lines[i] \in
                  {ResolvedSummaryLine(parts[i][1], parts[i][2], a) :
                      a \in {StrSending, StrDiscarded}}
        /\ LET sent == SendingPartsOf(lines, parts)
           IN  /\ Len(message[w].attachments) = Len(sent)
               /\ \A k \in 1..Len(sent) :
                     /\ message[w].attachments[k].filename = sent[k].FileName
                     /\ message[w].attachments[k].content = sent[k].Content

\* The indices of the parts of type text/plain without a file name.
UntitledTextOf(parts) ==
    {i \in 1..Len(parts) :
        /\ parts[i][2].ContentType = TypeTextPlain
        /\ parts[i][2].FileName = <<>>}

\* C26 as stated: a plain-text body is the body and the parts with its
\* content are left out of the summary and of the attachments; without a
\* plain-text body the first text/plain part without a file name is the
\* body and is left out, and every other part is summarised; without such
\* a part the raw data is the body.
C26_BodySelectionAsStated ==
    \A w \in active :
        (Formatted(w) /\ message[w].status = "ok") =>
            LET e == envelope[w]
                all == AllPartsOf(w)
                NoCopy(ep) == ep[2].Content # e.Text
                untitled == UntitledTextOf(all)
            IN  /\ e.Text # <<>> =>
                      /\ BodyOf(w) = e.Text
                      /\ SummarisedExactly(w, SelectSeq(all, NoCopy))
                /\ (e.Text = <<>> /\ untitled # {}) =>
                      LET k == Least(untitled)
                          body == all[k][2].Content
                      IN  /\ BodyOf(w) = IF body # <<>> THEN body ELSE e.Data
                          /\ SummarisedExactly(w, Without(all, k))
                /\ (e.Text = <<>> /\ untitled = {}) =>
                      /\ BodyOf(w) = e.Data
                      /\ SummarisedExactly(w, all)

\* What FormatEmail does: the parts whose content is env.Text (without a
\* plain-text body: the parts of no bytes) are left out of the summary and
\* of the attachments.  A plain-text body is the body; without one the
\* first text/plain part without a file name that has content is the body
\* and is left out, and later such parts are summarised; without such a
\* part the raw data is the body.
BodySelectionOfTheCode ==
    \A w \in active :
        (Formatted(w) /\ message[w].status = "ok") =>
            LET e == envelope[w]
                NoCopy(ep) == ep[2].Content # e.Text
                rest == SelectSeq(AllPartsOf(w), NoCopy)
                untitled == UntitledTextOf(rest)
            IN  /\ e.Text # <<>> =>
                      /\ BodyOf(w) = e.Text
                      /\ SummarisedExactly(w, rest)
                /\ (e.Text = <<>> /\ untitled # {}) =>
                      LET k == Least(untitled)
                      IN  /\ BodyOf(w) = rest[k][2].Content
                          /\ SummarisedExactly(w, Without(rest, k))
                /\ (e.Text = <<>> /\ untitled = {}) =>
                      /\ BodyOf(w) = e.Data
                      /\ SummarisedExactly(w, rest)

----------------------------------------------------------------------------
(* Properties of the receipts and of the aborts (checked under Spec) *)

\* C27: SendMessageToChat never returns success without a message, so an
\* attachment is sent only with a message to reply to: the dispatch never
\* panics on reading the identifier of a nil message.
C27_ReceiptExists ==
    \A w \in active :
        /\ \A i \in RequestsOf(w) :
              (IsTextRequest(i) /\ requests[i].status = "ok")
                  => requests[i].message_id \in MessageIds
        /\ pc[w] = "SendAttachmentToChat" => ~sentMessage[w].isNil
        /\ (Dispatching(w) /\ requests # <<>>) => pc[w] # "panic"

\* The dispatch of w has returned an error after a failed request.
Aborted(w) ==
    /\ Dispatching(w) /\ pc[w] = "done" /\ result[w].isErr
    /\ FailedRequestsOf(w) # {}

\* The destination at which the dispatch of w was aborted: that of its
\* last request.
AbortedAt(w) ==
    requests[CHOOSE i \in RequestsOf(w) : \A j \in RequestsOf(w) : j <= i].dest

\* Every matching destination before k has got the text and a request for
\* every attachment, and all of them have returned.
ServedBefore(w, k) ==
    \A d \in MatchingOf(w) :
        d < k =>
            \A a \in 0..Len(message[w].attachments) :
                \E i \in RequestsOf(w) :
                    /\ requests[i].dest = d /\ requests[i].att = a
                    /\ requests[i].status # "pending"
                    /\ a = 0 => requests[i].status = "ok"

\* A step takes no request back: the log of requests only grows, and a
\* request in it changes only by the return of its call.
NothingUndone ==
    /\ Len(requests') >= Len(requests)
    /\ \A i \in 1..Len(requests) :
          \/ requests'[i] = requests[i]
          \/ /\ requests[i].status = "pending"
             /\ requests'[i].status # "pending"
             /\ [requests'[i] EXCEPT !.status = "pending", !.message_id = <<>>]
                   = requests[i]

\* C28: when the dispatch is aborted at a matching destination, the
\* matching destinations before it have been sent the text and every
\* attachment; no request is ever taken back; and the envelope is reported
\* as failed: a 554 result, the next processor not called.
C28_PartialDeliveryOnAbort ==
    /\ [](\A w \in active :
             Aborted(w) =>
                 /\ AbortedAt(w) \in MatchingOf(w)
                 /\ ServedBefore(w, AbortedAt(w))
                 /\ StartsWith(result[w].code, <<"554 Error: ">>)
                 /\ nextCalled[w] = 0)
    /\ [][NothingUndone]_vars

\* C28's case: the dispatch was aborted at the second destination, after
\* the first one got the text and two or more attachments, one of which
\* failed and was passed over.
C28_Witness ==
    \E w \in active :
        /\ Aborted(w)
        /\ AbortedAt(w) = 2
        /\ 1 \in MatchingOf(w)
        /\ Len(message[w].attachments) >= 2
        /\ Cardinality({i \in RequestsOf(w) : requests[i].dest = 1})
              = 1 + Len(message[w].attachments)
        /\ \E i \in RequestsOf(w) :
              requests[i].dest = 1 /\ requests[i].status = "failed"

\* Worker w has run SendEmailToTelegram on an envelope whose sender
\* matches the filter of no destination.
NoDestinationMatches(w) ==
    /\ task[w] = "TaskSaveMail"
    /\ pc[w] \notin {"start", "off"}
    /\ MatchingOf(w) = {}

\* C29 as stated: when no destination matches the sender,
\* SendEmailToTelegram makes no request and returns success, and the
\* envelope goes to the next processor.
C29_NoMatchAcceptedAsStated ==
    \A w \in active :
        NoDestinationMatches(w) =>
            /\ RequestsOf(w) = {}
            /\ pc[w] = "done"
            /\ ~result[w].isErr
            /\ result[w] = NextProcessorResult
            /\ nextCalled[w] = 1

\* C29, amended: when no destination matches the sender,
\* SendEmailToTelegram makes no request; if FormatEmail returned a
\* notification it returns success and the envelope goes to the next
\* processor; if FormatEmail returned an error it returns that error and
\* the envelope is rejected.
C29_NoMatchAccepted ==
    \A w \in active :
        NoDestinationMatches(w) =>
            /\ RequestsOf(w) = {}
            /\ message[w].status = "ok" =>
                  /\ pc[w] = "done"
                  /\ ~result[w].isErr
                  /\ result[w] = NextProcessorResult
                  /\ nextCalled[w] = 1
            /\ message[w].status = "error" =>
                  /\ pc[w] = "done"
                  /\ result[w] = ErrorResult(message[w].err)
                  /\ nextCalled[w] = 0

\* C29's case: the only destination is for the sender a@x, the envelope is
\* from b@x; the filter was looked at, nothing was sent and the envelope
\* went to the next processor.
C29_Witness ==
    \E w \in active :
        /\ NoDestinationMatches(w)
        /\ config.telegramChatIds = Str_ChatIds_a_111
        /\ envelope[w].MailFrom = Str_b_x
        /\ message[w].status = "ok"
        /\ pc[w] = "done"
        /\ requests = <<>>
        /\ logged # <<>>
        /\ nextCalled[w] = 1

----------------------------------------------------------------------------
(* Properties of concurrent dispatches (checked under SpecConcurrent) *)

\* What worker w holds of its own dispatch.
LocalOf(w) ==
    <<task[w], envelope[w], pc[w], message[w], chatIdx[w], attIdx[w],
      sentMessage[w], result[w], nextCalled[w]>>

\* The requests of worker w, in the order they were made.
RequestSeqOf(w) == SelectSeq(requests, LAMBDA r : r.worker = w)

\* A step is the step of one worker: it leaves the configuration alone,
\* and what the other workers hold and have requested.
StepOfOneWorker ==
    /\ config' = config
    /\ \E w \in active :
          \A v \in active \ {w} :
              /\ LocalOf(v)' = LocalOf(v)
              /\ RequestSeqOf(v)' = RequestSeqOf(v)

\* C30: with two envelopes in process at once, in every interleaving the
\* requests of an envelope are made one after the other, in the order of
\* its destinations and attachments, with its own notification; an
\* attachment request replies to the message that the text send of the
\* same envelope to the same destination returned; and a step of one
\* envelope changes nothing of the other and nothing of the configuration.
C30_ConcurrentEnvelopesIndependent ==
    /\ [](\A w \in active :
             /\ \A i, j \in RequestsOf(w) :
                   i < j =>
                      /\ requests[i].status # "pending"
                      /\ requests[i].dest <= requests[j].dest
                      /\ requests[i].dest = requests[j].dest
                            => requests[i].att < requests[j].att
             /\ message[w].status = "ok" =>
                   \E buf \in RuneBufs :
                       message[w] = FormatEmail(envelope[w], config, buf)
             /\ \A j \in RequestsOf(w) :
                   /\ IsTextRequest(j) => requests[j].text = message[w].text
                   /\ IsAttachmentRequest(j) =>
                         LET t == TextRequestOf(w, requests[j].dest)
                             a == message[w].attachments[requests[j].att]
                         IN  /\ t < j
                             /\ requests[t].status = "ok"
                             /\ requests[j].reply_to_message_id
                                   = requests[t].message_id
                             /\ requests[j].chat_id = requests[t].chat_id
                             /\ requests[j].content = a.content)
    /\ [][StepOfOneWorker]_vars

\* C30's case: both envelopes go to chat 222; the text send of the second
\* envelope returned between the text send and the attachment of the
\* first, with another message identifier, and each attachment replies to
\* the message of its own envelope.
C30_Witness ==
    \E i, j, m, n \in ReqIdx :
        /\ requests[i].worker = 1 /\ requests[j].worker = 1
        /\ requests[m].worker = 2 /\ requests[n].worker = 2
        /\ IsTextRequest(i) /\ IsAttachmentRequest(j)
        /\ IsTextRequest(m) /\ IsAttachmentRequest(n)
        /\ requests[i].chat_id = Str_222 /\ requests[j].chat_id = Str_222
        /\ requests[m].chat_id = Str_222 /\ requests[n].chat_id = Str_222
        /\ i < m /\ m < j /\ j < n
        /\ requests[m].status = "ok"
        /\ requests[i].message_id # requests[m].message_id
        /\ requests[j].reply_to_message_id = requests[i].message_id
        /\ requests[n].reply_to_message_id = requests[m].message_id

=============================================================================
